---- MODULE Spec2Model ----
(***************************************************************************)
(* A model of the Easynews bridge: the opaque selection-token codec, the   *)
(* record normalization / filtering / matching pipeline of server.py, the  *)
(* selection payload builder of easynews_client.py and the /api request    *)
(* handler.                                                                *)
(*                                                                         *)
(* Text is a sequence of Unicode code points (97 is "a", 34 the double     *)
(* quote, 46 the dot, ...), bytes are sequences of 0..255.  Python values  *)
(* are tagged records: None, Str(s), Bool(b), Num(n), Dict(d), List(a),    *)
(* where a dict is a function from key texts to values and a list is a     *)
(* sequence of values.                                                     *)
(***************************************************************************)
EXTENDS Integers, Sequences, FiniteSets, TLC

VARIABLES
    cx,       \* codec: the selection record handed to encode_id
    cpc,      \* codec: "encode" | "decode" | "done"
    ctoken,   \* codec: the token encode_id returned
    cout,     \* codec: what decode_id returned for ctoken
    draw,     \* duration: the raw duration value of an upstream record
    dpc,      \* duration: "call" | "done"
    dout,     \* duration: what _parse_duration_seconds returned, or its raise
    pitems,   \* payload: the selected items handed to build_nzb_payload
    pname,    \* payload: the display name, or None
    ppc,      \* payload: "call" | "done"
    pout,     \* payload: the mapping build_nzb_payload returned
    fitem,    \* flag filter: the upstream record
    fext,     \* flag filter: its extension
    fdur,     \* flag filter: its duration in seconds, or None
    fpc,      \* flag filter: "call" | "done"
    fout,     \* flag filter: what _is_flagged_item returned
    stitle,   \* strict match: the candidate title
    squery,   \* strict match: the raw query of the request
    spc,      \* strict match: "call" | "done"
    sout,     \* strict match: what _matches_strict returned
    qreq,     \* search: the arguments of the search request
    qdata,    \* search: the upstream response handed to filter_and_map
    qargs,    \* search: what the handler derived from the request
    qpc,      \* search: "call" | "done"
    qout,     \* search: what filter_and_map returned, or its raise
    request,  \* api: the last request served
    response, \* api: the response to it
    calls,    \* api: the upstream calls made while serving it, in order
    _CLIENT,  \* the cached EasynewsClient, or None
    _CLIENT_LAST_LOGIN, \* when it last logged in
    now,      \* time.time()
    greq,     \* results page: the arguments of the search request
    gdata,    \* results page: the JSON the upstream answers the search with
    gargs,    \* results page: what the handler derived from the request
    gpc,      \* results page: "call" | "done"
    gout,     \* results page: the response of api
    mdata,    \* filter: the upstream response handed to filter_and_map
    mmin,     \* filter: the min_bytes argument
    mpc,      \* filter: "call" | "done"
    mfields,  \* filter: the fields the loop read off each record
    mout,     \* filter: what filter_and_map returned, or its raise
    rtitle,   \* markers: the title handed to _extract_release_markers
    rhint,    \* markers: the quality hint, or None
    rpc,      \* markers: "call" | "done"
    rout,     \* markers: the info dict returned
    lock,     \* cache: the thread that holds _CLIENT_LOCK, 0 when it is free
    tpc,      \* cache: where each request thread is in client()
    tnow,     \* cache: the local now of each thread
    created,  \* cache: the EasynewsClient instances created so far
    failures  \* cache: the login() calls that raised so far

codecVars == <<cx, cpc, ctoken, cout>>
durVars == <<draw, dpc, dout>>
payVars == <<pitems, pname, ppc, pout>>
flagVars == <<fitem, fext, fdur, fpc, fout>>
strictVars == <<stitle, squery, spc, sout>>
searchVars == <<qreq, qdata, qargs, qpc, qout>>
apiVars == <<request, response, calls, _CLIENT, _CLIENT_LAST_LOGIN, now>>
pageVars == <<greq, gdata, gargs, gpc, gout>>
filterVars == <<mdata, mmin, mpc, mfields, mout>>
markVars == <<rtitle, rhint, rpc, rout>>
cacheVars == <<lock, tpc, tnow, created, failures>>
vars == <<codecVars, durVars, payVars, flagVars, strictVars, searchVars, apiVars, pageVars, filterVars, markVars, cacheVars>>

\* what the actions of one group leave alone
exceptCodec == <<durVars, payVars, flagVars, strictVars, searchVars, apiVars, pageVars, filterVars, markVars, cacheVars>>
exceptDur == <<codecVars, payVars, flagVars, strictVars, searchVars, apiVars, pageVars, filterVars, markVars, cacheVars>>
exceptPay == <<codecVars, durVars, flagVars, strictVars, searchVars, apiVars, pageVars, filterVars, markVars, cacheVars>>
exceptFlag == <<codecVars, durVars, payVars, strictVars, searchVars, apiVars, pageVars, filterVars, markVars, cacheVars>>
exceptStrict == <<codecVars, durVars, payVars, flagVars, searchVars, apiVars, pageVars, filterVars, markVars, cacheVars>>
exceptSearch == <<codecVars, durVars, payVars, flagVars, strictVars, apiVars, pageVars, filterVars, markVars, cacheVars>>
exceptApi == <<codecVars, durVars, payVars, flagVars, strictVars, searchVars, pageVars, filterVars, markVars, cacheVars>>
exceptPage == <<codecVars, durVars, payVars, flagVars, strictVars, searchVars, apiVars, filterVars, markVars, cacheVars>>
exceptFilter == <<codecVars, durVars, payVars, flagVars, strictVars, searchVars, apiVars, pageVars, markVars, cacheVars>>
exceptMark == <<codecVars, durVars, payVars, flagVars, strictVars, searchVars, apiVars, pageVars, filterVars, cacheVars>>
\* the cache actions read and write the globals that are among apiVars
exceptCache == <<codecVars, durVars, payVars, flagVars, strictVars, searchVars, pageVars, filterVars, markVars>>

----------------------------------------------------------------------------
(* Python values *)

None == [t |-> "none"]
Str(s) == [t |-> "str", s |-> s]
Bool(b) == [t |-> "bool", b |-> b]
Num(n) == [t |-> "int", n |-> n]
Dict(d) == [t |-> "dict", d |-> d]
List(a) == [t |-> "list", a |-> a]

\* bool(v)
Truthy(v) ==
    CASE v.t = "none" -> FALSE
      [] v.t = "str"  -> v.s # <<>>
      [] v.t = "bool" -> v.b
      [] v.t = "int"  -> v.n # 0
      [] v.t = "dict" -> DOMAIN v.d # {}
      [] v.t = "list" -> v.a # <<>>
      [] OTHER -> TRUE

\* d.get(k) on a dict d (a function from key texts to values)
Get(d, k) == IF k \in DOMAIN d THEN d[k] ELSE None

\* a or b
Or(a, b) == IF Truthy(a) THEN a ELSE b

\* d[k] = v
Put(d, k, v) == [x \in DOMAIN d \cup {k} |-> IF x = k THEN v ELSE d[x]]

At(s, i) == IF i >= 1 /\ i <= Len(s) THEN s[i] ELSE -1

\* the concatenation of a sequence of sequences (by halves)
RECURSIVE Flatten(_)
Flatten(ss) ==
    IF Len(ss) = 0 THEN <<>>
    ELSE IF Len(ss) = 1 THEN ss[1]
    ELSE LET h == Len(ss) \div 2
         IN  Flatten(SubSeq(ss, 1, h)) \o Flatten(SubSeq(ss, h + 1, Len(ss)))

\* the positions i of s with P(s, i), in increasing order
Positions(s, P(_, _)) ==
    SelectSeq([i \in 1..Len(s) |-> i], LAMBDA i : P(s, i))

\* all sequences over S of length at most n
SeqsUpTo(S, n) == UNION {[1..k -> S] : k \in 0..n}

----------------------------------------------------------------------------
(* Key texts *)

K_hash == <<104, 97, 115, 104>>
K_filename == <<102, 105, 108, 101, 110, 97, 109, 101>>
K_ext == <<101, 120, 116>>
K_sig == <<115, 105, 103>>
K_title == <<116, 105, 116, 108, 101>>
K_sample == <<115, 97, 109, 112, 108, 101>>

----------------------------------------------------------------------------
(* json.dumps(payload, ensure_ascii=False) *)

HexDigit(n) == IF n < 10 THEN 48 + n ELSE 87 + n

\* one character inside a JSON string, as json.dumps writes it with
\* ensure_ascii=False: the quote, the backslash and the control characters
\* are escaped, everything else is written as it is
JsonEscapeChar(c) ==
    CASE c = 34 -> <<92, 34>>
      [] c = 92 -> <<92, 92>>
      [] c = 10 -> <<92, 110>>
      [] c = 13 -> <<92, 114>>
      [] c = 9  -> <<92, 116>>
      [] c = 8  -> <<92, 98>>
      [] c = 12 -> <<92, 102>>
      [] c < 32 /\ c \notin {8, 9, 10, 12, 13}
                -> <<92, 117, 48, 48, HexDigit(c \div 16), HexDigit(c % 16)>>
      [] OTHER  -> <<c>>

JsonString(s) ==
    <<34>> \o Flatten([i \in 1..Len(s) |-> JsonEscapeChar(s[i])]) \o <<34>>

RECURSIVE NatDigits(_)
NatDigits(n) == IF n < 10 THEN <<48 + n>> ELSE NatDigits(n \div 10) \o <<48 + (n % 10)>>

\* str(n) for an integer n
IntText(n) == IF n < 0 THEN <<45>> \o NatDigits(-n) ELSE NatDigits(n)

JsonScalar(v) ==
    CASE v.t = "none" -> <<110, 117, 108, 108>>
      [] v.t = "bool" -> IF v.b THEN <<116, 114, 117, 101>>
                                ELSE <<102, 97, 108, 115, 101>>
      [] v.t = "int"  -> IntText(v.n)
      [] v.t = "str"  -> JsonString(v.s)

\* json.dumps of an insertion-ordered dict, given as a sequence of
\* <<key, value>> pairs: {"k": v, "k": v}
RECURSIVE JsonMembers(_)
JsonMembers(pairs) ==
    IF pairs = <<>> THEN <<>>
    ELSE JsonString(Head(pairs)[1]) \o <<58, 32>> \o JsonScalar(Head(pairs)[2])
         \o (IF Len(pairs) > 1 THEN <<44, 32>> ELSE <<>>)
         \o JsonMembers(Tail(pairs))

JsonDumps(pairs) == <<123>> \o JsonMembers(pairs) \o <<125>>

----------------------------------------------------------------------------
(* str.encode() and bytes.decode(): UTF-8 *)

Utf8EncodeChar(c) ==
    IF c < 128 THEN <<c>>
    ELSE IF c < 2048 THEN <<192 + (c \div 64), 128 + (c % 64)>>
    ELSE IF c < 65536 THEN <<224 + (c \div 4096), 128 + ((c \div 64) % 64), 128 + (c % 64)>>
    ELSE <<240 + (c \div 262144), 128 + ((c \div 4096) % 64),
           128 + ((c \div 64) % 64), 128 + (c % 64)>>

Utf8Encode(s) == Flatten([i \in 1..Len(s) |-> Utf8EncodeChar(s[i])])

IsCont(b) == b >= 128 /\ b <= 191

IsLeadAt(b, i) == ~IsCont(b[i])

\* the length of the sequence a lead byte opens, 0 for a byte that opens none
Utf8Width(b1) ==
    IF b1 < 128 THEN 1
    ELSE IF b1 >= 194 /\ b1 <= 223 THEN 2
    ELSE IF b1 >= 224 /\ b1 <= 239 THEN 3
    ELSE IF b1 >= 240 /\ b1 <= 244 THEN 4
    ELSE 0

\* the sequence that starts at lead position i is well formed and is
\* followed by the end of the data or by another lead
Utf8GoodAt(b, i) ==
    LET w == Utf8Width(b[i])
    IN  /\ w > 0
        /\ i + w - 1 <= Len(b)
        /\ \A k \in (i + 1)..(i + w - 1) : IsCont(b[k])
        /\ (i + w <= Len(b) => ~IsCont(b[i + w]))
        /\ (b[i] = 224 => b[i + 1] >= 160)
        /\ (b[i] = 237 => b[i + 1] <= 159)
        /\ (b[i] = 240 => b[i + 1] >= 144)
        /\ (b[i] = 244 => b[i + 1] <= 143)

Utf8CodePoint(b, i) ==
    LET w == Utf8Width(b[i])
    IN  CASE w = 1 -> b[i]
          [] w = 2 -> (b[i] - 192) * 64 + (b[i + 1] - 128)
          [] w = 3 -> (b[i] - 224) * 4096 + (b[i + 1] - 128) * 64 + (b[i + 2] - 128)
          [] w = 4 -> (b[i] - 240) * 262144 + (b[i + 1] - 128) * 4096
                      + (b[i + 2] - 128) * 64 + (b[i + 3] - 128)

\* strict UTF-8 decoding; ok = FALSE is UnicodeDecodeError.  UTF-8 is
\* self-synchronising: the text is valid exactly when it starts with a lead
\* byte and every lead byte opens a well-formed sequence.
Utf8DecodeBytes(b) ==
    LET leads == Positions(b, IsLeadAt)
    IN  IF /\ (b # <<>> => ~IsCont(b[1]))
           /\ \A k \in 1..Len(leads) : Utf8GoodAt(b, leads[k])
        THEN [ok |-> TRUE, s |-> [k \in 1..Len(leads) |-> Utf8CodePoint(b, leads[k])]]
        ELSE [ok |-> FALSE, s |-> <<>>]

Utf8Decode(b) == Utf8DecodeBytes(b)

----------------------------------------------------------------------------
(* base64.urlsafe_b64encode / urlsafe_b64decode *)

\* the URL-safe alphabet: A-Z a-z 0-9 - _
B64UrlChar(v) ==
    IF v < 26 THEN 65 + v
    ELSE IF v < 52 THEN 97 + (v - 26)
    ELSE IF v < 62 THEN 48 + (v - 52)
    ELSE IF v = 62 THEN 45 ELSE 95

\* the standard alphabet: A-Z a-z 0-9 + /
B64StdChar(v) ==
    IF v < 26 THEN 65 + v
    ELSE IF v < 52 THEN 97 + (v - 26)
    ELSE IF v < 62 THEN 48 + (v - 52)
    ELSE IF v = 62 THEN 43 ELSE 47

\* the value of a character, 64 when it is not of the alphabet; the URL-safe
\* decoder maps - and _ to + and / and then decodes the standard alphabet
B64Val(c) ==
    IF c >= 65 /\ c <= 90 THEN c - 65
    ELSE IF c >= 97 /\ c <= 122 THEN c - 97 + 26
    ELSE IF c >= 48 /\ c <= 57 THEN c - 48 + 52
    ELSE IF c = 45 \/ c = 43 THEN 62
    ELSE IF c = 95 \/ c = 47 THEN 63
    ELSE 64

\* three bytes give four characters; a last group of one or two bytes is
\* padded with "="
B64EncodeWith(b, B64Char(_)) ==
    LET n      == Len(b)
        byte(k) == IF k <= n THEN b[k] ELSE 0
        char(k) ==
            LET g == (k - 1) \div 4
                j == (k - 1) % 4
                x == byte(3 * g + 1)
                y == byte(3 * g + 2)
                z == byte(3 * g + 3)
            IN  CASE j = 0 -> B64Char(x \div 4)
                  [] j = 1 -> B64Char((x % 4) * 16 + y \div 16)
                  [] j = 2 -> IF 3 * g + 2 > n THEN 61
                              ELSE B64Char((y % 16) * 4 + z \div 64)
                  [] j = 3 -> IF 3 * g + 3 > n THEN 61 ELSE B64Char(z % 64)
    IN  [k \in 1..(4 * ((n + 2) \div 3)) |-> char(k)]

\* base64.urlsafe_b64encode
B64Encode(b) == B64EncodeWith(b, B64UrlChar)

\* base64.b64encode
B64EncodeStd(b) == B64EncodeWith(b, B64StdChar)

\* s.rstrip("=")
RECURSIVE RStripPad(_)
RStripPad(s) ==
    IF s # <<>> /\ s[Len(s)] = 61 THEN RStripPad(SubSeq(s, 1, Len(s) - 1)) ELSE s

\* "=" * n
RECURSIVE PadText(_)
PadText(n) == IF n = 0 THEN <<>> ELSE <<61>> \o PadText(n - 1)

IsB64DataAt(s, i) == B64Val(s[i]) # 64

\* binascii.a2b_base64 without strict mode: characters outside the alphabet
\* are skipped; a "=" met after two data characters of a group of four and
\* followed by a second "=" with no data between, or met after three, ends
\* the data; data that stops inside a group of four with no such padding is
\* an error (ok = FALSE is binascii.Error)
B64DecodeText(s) ==
    LET data(p)  == Positions(SubSeq(s, 1, p), IsB64DataAt)
        quad(p)  == Len(data(p)) % 4
        lastd(p) == IF data(p) = <<>> THEN 0 ELSE data(p)[Len(data(p))]
        pads(p)  == Cardinality({q \in (lastd(p) + 1)..p : s[q] = 61})
        stops    == {p \in 1..Len(s) :
                        s[p] = 61 /\ quad(p) >= 2 /\ quad(p) + pads(p) >= 4}
        stop     == IF stops = {} THEN Len(s) + 1
                    ELSE CHOOSE p \in stops : \A q \in stops : p <= q
        d        == data(stop - 1)
        val(k)   == B64Val(s[d[k]])
        n        == Len(d)
        nbytes   == 3 * (n \div 4) + (IF n % 4 = 0 THEN 0 ELSE (n % 4) - 1)
        byte(k)  ==
            LET g == (k - 1) \div 3
                j == (k - 1) % 3
            IN  CASE j = 0 -> val(4 * g + 1) * 4 + val(4 * g + 2) \div 16
                  [] j = 1 -> (val(4 * g + 2) % 16) * 16 + val(4 * g + 3) \div 4
                  [] j = 2 -> (val(4 * g + 3) % 4) * 64 + val(4 * g + 4)
    IN  [ok |-> stops # {} \/ n % 4 = 0, b |-> [k \in 1..nbytes |-> byte(k)]]

B64Decode(s) == B64DecodeText(s)

----------------------------------------------------------------------------
(* json.loads: objects, strings, null / true / false and integers.  Every *)
(* parser returns [ok, v, nxt]; ok = FALSE is json.JSONDecodeError.       *)

JsonFail == [ok |-> FALSE, v |-> None, nxt |-> 0]

IsJsonWs(c) == c \in {32, 9, 10, 13}

RECURSIVE SkipWs(_, _)
SkipWs(t, i) == IF i <= Len(t) /\ IsJsonWs(t[i]) THEN SkipWs(t, i + 1) ELSE i

HexVal(c) ==
    IF c >= 48 /\ c <= 57 THEN c - 48
    ELSE IF c >= 97 /\ c <= 102 THEN c - 87
    ELSE IF c >= 65 /\ c <= 70 THEN c - 55
    ELSE -1

\* the characters of a string whose opening quote is before position i
RECURSIVE ParseChars(_, _, _)
ParseChars(t, i, acc) ==
    IF i > Len(t) THEN JsonFail
    ELSE IF t[i] = 34 THEN [ok |-> TRUE, v |-> Str(acc), nxt |-> i + 1]
    ELSE IF t[i] < 32 THEN JsonFail
    ELSE IF t[i] # 92 THEN ParseChars(t, i + 1, Append(acc, t[i]))
    ELSE LET e == At(t, i + 1)
         IN  CASE e = 34  -> ParseChars(t, i + 2, Append(acc, 34))
               [] e = 92  -> ParseChars(t, i + 2, Append(acc, 92))
               [] e = 47  -> ParseChars(t, i + 2, Append(acc, 47))
               [] e = 98  -> ParseChars(t, i + 2, Append(acc, 8))
               [] e = 102 -> ParseChars(t, i + 2, Append(acc, 12))
               [] e = 110 -> ParseChars(t, i + 2, Append(acc, 10))
               [] e = 114 -> ParseChars(t, i + 2, Append(acc, 13))
               [] e = 116 -> ParseChars(t, i + 2, Append(acc, 9))
               [] e = 117 ->
                    LET h == [k \in 1..4 |-> HexVal(At(t, i + 1 + k))]
                    IN  IF \E k \in 1..4 : h[k] < 0 THEN JsonFail
                        ELSE ParseChars(t, i + 6,
                                 Append(acc, h[1] * 4096 + h[2] * 256 + h[3] * 16 + h[4]))
               [] OTHER   -> JsonFail

\* the digits of an integer from position i on
RECURSIVE ParseDigits(_, _, _)
ParseDigits(t, i, n) ==
    IF i <= Len(t) /\ t[i] >= 48 /\ t[i] <= 57
    THEN ParseDigits(t, i + 1, n * 10 + (t[i] - 48))
    ELSE [ok |-> TRUE, v |-> Num(n), nxt |-> i]

HasAt(t, i, w) == i + Len(w) - 1 <= Len(t) /\ SubSeq(t, i, i + Len(w) - 1) = w

RECURSIVE ParseValue(_, _)
RECURSIVE ParsePairs(_, _, _)

\* the members of an object from the key at position i on; a repeated key
\* keeps its last value
ParsePairs(t, i, acc) ==
    IF At(t, i) # 34 THEN JsonFail
    ELSE LET key == ParseChars(t, i + 1, <<>>)
         IN  IF ~key.ok THEN JsonFail
             ELSE LET c == SkipWs(t, key.nxt)
                  IN  IF At(t, c) # 58 THEN JsonFail
                      ELSE LET val == ParseValue(t, SkipWs(t, c + 1))
                           IN  IF ~val.ok THEN JsonFail
                               ELSE LET m   == SkipWs(t, val.nxt)
                                        put == Put(acc, key.v.s, val.v)
                                    IN  IF At(t, m) = 44
                                        THEN ParsePairs(t, SkipWs(t, m + 1), put)
                                        ELSE IF At(t, m) = 125
                                        THEN [ok |-> TRUE, v |-> Dict(put), nxt |-> m + 1]
                                        ELSE JsonFail

ParseValue(t, i) ==
    LET c == At(t, i)
    IN  CASE c = 34  -> ParseChars(t, i + 1, <<>>)
          [] c = 123 -> LET j == SkipWs(t, i + 1)
                        IN  IF At(t, j) = 125
                            THEN [ok |-> TRUE, v |-> Dict(<<>>), nxt |-> j + 1]
                            ELSE ParsePairs(t, j, <<>>)
          [] c = 110 -> IF HasAt(t, i, <<110, 117, 108, 108>>)
                        THEN [ok |-> TRUE, v |-> None, nxt |-> i + 4] ELSE JsonFail
          [] c = 116 -> IF HasAt(t, i, <<116, 114, 117, 101>>)
                        THEN [ok |-> TRUE, v |-> Bool(TRUE), nxt |-> i + 4] ELSE JsonFail
          [] c = 102 -> IF HasAt(t, i, <<102, 97, 108, 115, 101>>)
                        THEN [ok |-> TRUE, v |-> Bool(FALSE), nxt |-> i + 5] ELSE JsonFail
          [] c = 48  -> [ok |-> TRUE, v |-> Num(0), nxt |-> i + 1]
          [] c >= 49 /\ c <= 57 -> ParseDigits(t, i, 0)
          [] OTHER   -> JsonFail

\* json.loads(text): one value, with nothing but whitespace around it
JsonLoads(t) ==
    LET r == ParseValue(t, SkipWs(t, 1))
    IN  IF r.ok /\ SkipWs(t, r.nxt) = Len(t) + 1 THEN [ok |-> TRUE, v |-> r.v]
        ELSE [ok |-> FALSE, v |-> None]

----------------------------------------------------------------------------
(* The opaque selection-token codec *)

\* the payload encode_id builds: five fields read with item.get, in this
\* order, and "sample": True only when item.get("sample") is truthy
IdPayload(item) ==
    <<  <<K_hash, Get(item, K_hash)>>,
        <<K_filename, Get(item, K_filename)>>,
        <<K_ext, Get(item, K_ext)>>,
        <<K_sig, Get(item, K_sig)>>,
        <<K_title, Get(item, K_title)>> >>
    \o (IF Truthy(Get(item, K_sample)) THEN << <<K_sample, Bool(TRUE)>> >> ELSE <<>>)

encode_id(item) == RStripPad(B64Encode(Utf8Encode(JsonDumps(IdPayload(item)))))

\* decode_id without the padding step
decode_id_unpadded(enc) ==
    LET raw  == B64Decode(enc)
        text == IF raw.ok THEN Utf8Decode(raw.b) ELSE [ok |-> FALSE, s |-> <<>>]
    IN  IF text.ok THEN JsonLoads(text.s) ELSE [ok |-> FALSE, v |-> None]

\* [ok, v]: ok = FALSE when base64, UTF-8 or JSON decoding raises
decode_id(enc) ==
    LET pad  == PadText((4 - (Len(enc) % 4)) % 4)
        raw  == B64Decode(enc \o pad)
        text == IF raw.ok THEN Utf8Decode(raw.b) ELSE [ok |-> FALSE, s |-> <<>>]
    IN  IF text.ok THEN JsonLoads(text.s) ELSE [ok |-> FALSE, v |-> None]

----------------------------------------------------------------------------
(* Character classes and text helpers of Python's str and re *)

\* str.isspace, which str.strip and the regex class \s use
IsSpace(c) == c \in {9, 10, 11, 12, 13, 28, 29, 30, 31, 32, 133, 160}

\* the decimal digits int() and the regex class \d accept (ASCII here)
IsDecimal(c) == c >= 48 /\ c <= 57

\* str.isdigit also accepts the superscript digits, which int() rejects
IsDigitChar(c) == IsDecimal(c) \/ c \in {178, 179, 185}

\* str.lower on ASCII and Latin-1 letters
LowerChar(c) ==
    IF c >= 65 /\ c <= 90 THEN c + 32
    ELSE IF c >= 192 /\ c <= 222 /\ c # 215 THEN c + 32
    ELSE c

Lower(s) == [i \in 1..Len(s) |-> LowerChar(s[i])]

RECURSIVE LStrip(_)
LStrip(s) == IF s # <<>> /\ IsSpace(s[1]) THEN LStrip(Tail(s)) ELSE s

RECURSIVE RStrip(_)
RStrip(s) ==
    IF s # <<>> /\ IsSpace(s[Len(s)]) THEN RStrip(SubSeq(s, 1, Len(s) - 1)) ELSE s

\* s.strip()
Strip(s) == RStrip(LStrip(s))

\* the first position >= i of s holding c, Len(s) + 1 when there is none
RECURSIVE IndexFrom(_, _, _)
IndexFrom(s, c, i) ==
    IF i > Len(s) THEN Len(s) + 1
    ELSE IF s[i] = c THEN i ELSE IndexFrom(s, c, i + 1)

\* s.split(c) for a one-character separator
RECURSIVE SplitOn(_, _)
SplitOn(s, c) ==
    LET k == IndexFrom(s, c, 1)
    IN  IF k > Len(s) THEN <<s>>
        ELSE <<SubSeq(s, 1, k - 1)>> \o SplitOn(SubSeq(s, k + 1, Len(s)), c)

\* the value of a run of decimal digits
RECURSIVE DigitsValue(_)
DigitsValue(s) ==
    IF s = <<>> THEN 0 ELSE DigitsValue(SubSeq(s, 1, Len(s) - 1)) * 10 + (s[Len(s)] - 48)

\* the value of a sign and a run of digits and underscores: single
\* underscores between digits only; ok = FALSE is ValueError
SignedDigits(neg, body) ==
    IF /\ body # <<>>
       /\ \A i \in 1..Len(body) : IsDecimal(body[i]) \/ body[i] = 95
       /\ IsDecimal(body[1]) /\ IsDecimal(body[Len(body)])
       /\ \A i \in 1..(Len(body) - 1) : ~(body[i] = 95 /\ body[i + 1] = 95)
    THEN [ok |-> TRUE,
          n  |-> IF neg THEN -DigitsValue(SelectSeq(body, IsDecimal))
                 ELSE DigitsValue(SelectSeq(body, IsDecimal))]
    ELSE [ok |-> FALSE, n |-> 0]

\* int() on a text without surrounding whitespace: an optional sign first
IntOfStripped(t) ==
    SignedDigits(t # <<>> /\ t[1] = 45,
                 IF t # <<>> /\ t[1] \in {43, 45} THEN Tail(t) ELSE t)

\* int(text): surrounding whitespace, an optional sign, decimal digits with
\* single underscores between them; ok = FALSE is ValueError
PyInt(text) == IntOfStripped(Strip(text))

----------------------------------------------------------------------------
(* _parse_duration_seconds *)

_MIN_DURATION_SECONDS == 60

\* the end (exclusive) of the run of decimal digits starting at i
RECURSIVE DigitsEnd(_, _)
DigitsEnd(s, i) == IF i <= Len(s) /\ IsDecimal(s[i]) THEN DigitsEnd(s, i + 1) ELSE i

RECURSIVE SpacesEnd(_, _)
SpacesEnd(s, i) == IF i <= Len(s) /\ IsSpace(s[i]) THEN SpacesEnd(s, i + 1) ELSE i

\* re.findall(rf"(\d+)\s*{label}", text), scanned from position i: the
\* digit runs of the matches, leftmost first, matches not overlapping
RECURSIVE FindLabelled(_, _, _)
FindLabelled(text, label, i) ==
    IF i > Len(text) THEN <<>>
    ELSE IF ~IsDecimal(text[i]) THEN FindLabelled(text, label, i + 1)
    ELSE LET j == DigitsEnd(text, i)
             k == SpacesEnd(text, j)
         IN  IF At(text, k) = label
             THEN <<SubSeq(text, i, j - 1)>> \o FindLabelled(text, label, k + 1)
             ELSE FindLabelled(text, label, i + 1)

RECURSIVE SumParts(_, _)
SumParts(parts, multiplier) ==
    IF parts = <<>> THEN 0
    ELSE DigitsValue(Head(parts)) * multiplier + SumParts(Tail(parts), multiplier)

DurationReturn(v) == [ok |-> TRUE, v |-> v]
DurationRaise == [ok |-> FALSE, v |-> None]

\* the clock branch: text.split(":") with every piece through int()
ClockSeconds(text) ==
    LET pieces == SplitOn(text, 58)
        ints   == [i \in 1..Len(pieces) |-> PyInt(pieces[i])]
    IN  IF \E i \in 1..Len(ints) : ~ints[i].ok THEN DurationReturn(None)
        ELSE IF Len(ints) = 3
        THEN DurationReturn(Num(ints[1].n * 3600 + ints[2].n * 60 + ints[3].n))
        ELSE IF Len(ints) = 2
        THEN DurationReturn(Num(ints[1].n * 60 + ints[2].n))
        ELSE DurationReturn(None)

\* [ok, v]: v is None (unknown) or Num(seconds); ok = FALSE when the call
\* raises (int() on digit-only text that is not decimal)
_parse_duration_seconds(raw) ==
    IF raw.t = "none" THEN DurationReturn(None)
    ELSE IF raw.t = "int" THEN
        IF raw.n <= 0 THEN DurationReturn(None) ELSE DurationReturn(Num(raw.n))
    ELSE IF raw.t = "bool" THEN
        IF raw.b THEN DurationReturn(Num(1)) ELSE DurationReturn(None)
    ELSE
        LET text == Lower(Strip(raw.s))
            hs   == FindLabelled(text, 104, 1)
            ms   == FindLabelled(text, 109, 1)
            ss   == FindLabelled(text, 115, 1)
        IN  IF text = <<>> THEN DurationReturn(None)
            ELSE IF \A i \in 1..Len(text) : IsDigitChar(text[i])
            THEN IF PyInt(text).ok THEN DurationReturn(Num(PyInt(text).n))
                 ELSE DurationRaise
            ELSE IF hs # <<>> \/ ms # <<>> \/ ss # <<>>
            THEN DurationReturn(Num(SumParts(hs, 3600) + SumParts(ms, 60) + SumParts(ss, 1)))
            ELSE IF \E i \in 1..Len(text) : text[i] = 58
            THEN ClockSeconds(text)
            ELSE DurationReturn(None)

----------------------------------------------------------------------------
(* easynews_client.py: SearchItem.value_token and build_nzb_payload *)

K_autoNZB == <<97, 117, 116, 111, 78, 90, 66>>
K_nameZipQ0 == <<110, 97, 109, 101, 90, 105, 112, 81, 48>>

\* s.replace("=", "")
RemovePad(s) == SelectSeq(s, LAMBDA c : c # 61)

\* f"{v}" for a text or None
FormatValue(v) ==
    CASE v.t = "str"  -> v.s
      [] v.t = "none" -> <<78, 111, 110, 101>>
      [] v.t = "int"  -> IntText(v.n)
      [] v.t = "bool" -> IF v.b THEN <<84, 114, 117, 101>> ELSE <<70, 97, 108, 115, 101>>

\* SearchItem(id, hash, filename, ext, sig, type, raw)
SearchItem(id, hash, filename, ext, sig, type, raw) ==
    [id |-> id, hash |-> hash, filename |-> filename, ext |-> ext, sig |-> sig,
     type |-> type, raw |-> raw]

\* "{hash}|{b64(filename)}:{b64(ext)}", the padding removed; ok = FALSE when
\* filename or ext is not text (None.encode raises AttributeError)
value_token(it) ==
    IF it.filename.t # "str" \/ it.ext.t # "str" THEN [ok |-> FALSE, s |-> <<>>]
    ELSE [ok |-> TRUE,
          s  |-> FormatValue(it.hash) \o <<124>>
                 \o RemovePad(B64EncodeStd(Utf8Encode(it.filename.s))) \o <<58>>
                 \o RemovePad(B64EncodeStd(Utf8Encode(it.ext.s)))]

\* the key of the item at 0-based position idx, always str(idx)
PayloadKeyIgnoringSig(idx, it) == IntText(idx)

\* the key of the item at 0-based position idx
PayloadKey(idx, it) ==
    IF Truthy(it.sig)
    THEN IntText(idx) \o <<38, 115, 105, 103, 61>> \o FormatValue(it.sig)
    ELSE IntText(idx)

\* the loop of build_nzb_payload over items[k..], on the mapping data
RECURSIVE PayloadItems(_, _, _)
PayloadItems(items, k, data) ==
    IF k > Len(items) THEN [ok |-> TRUE, data |-> data]
    ELSE LET tok == value_token(items[k])
         IN  IF ~tok.ok THEN [ok |-> FALSE, data |-> data]
             ELSE PayloadItems(items, k + 1, Put(data, PayloadKey(k - 1, items[k]), tok.s))

\* [ok, data]: the form fields; ok = FALSE when value_token raises
build_nzb_payload(items, name) ==
    LET filled == PayloadItems(items, 1, (K_autoNZB :> <<49>>))
    IN  IF ~filled.ok THEN filled
        ELSE IF Truthy(name) THEN [ok |-> TRUE, data |-> Put(filled.data, K_nameZipQ0, name.s)]
        ELSE filled

----------------------------------------------------------------------------
(* Text helpers of the result filter: str.replace, str.split, the regex   *)
(* class \w, _sanitize_phrase, _tokenize, _matches_strict                  *)

Max(a, b) == IF a >= b THEN a ELSE b

Min(a, b) == IF a <= b THEN a ELSE b

\* s[a:b] for 0 <= a, clamped as Python clamps a slice
Slice(s, a, b) == SubSeq(s, a + 1, Min(b, Len(s)))

\* whether sub occurs in s at position i
OccursAt(s, sub, i) ==
    i >= 1 /\ i + Len(sub) - 1 <= Len(s) /\ SubSeq(s, i, i + Len(sub) - 1) = sub

\* sub in s
Contains(s, sub) == \E i \in 1..(Len(s) - Len(sub) + 1) : OccursAt(s, sub, i)

\* the first position >= i where sub occurs in s, 0 when there is none
Find(s, sub, i) ==
    LET hits == {k \in i..(Len(s) - Len(sub) + 1) : OccursAt(s, sub, k)}
    IN  IF hits = {} THEN 0 ELSE CHOOSE k \in hits : \A j \in hits : k <= j

\* s.replace(old, new) for a non-empty old: leftmost occurrences, not
\* overlapping (text or bytes)
RECURSIVE Replace(_, _, _)
Replace(s, old, new) ==
    LET k == Find(s, old, 1)
    IN  IF k = 0 THEN s
        ELSE SubSeq(s, 1, k - 1) \o new
             \o Replace(SubSeq(s, k + Len(old), Len(s)), old, new)

\* str.upper on ASCII and Latin-1: the sharp s becomes "SS", y-diaeresis and
\* the micro sign leave Latin-1
Upper(s) ==
    Flatten([i \in 1..Len(s) |->
        IF s[i] >= 97 /\ s[i] <= 122 THEN <<s[i] - 32>>
        ELSE IF s[i] >= 224 /\ s[i] <= 254 /\ s[i] # 247 THEN <<s[i] - 32>>
        ELSE IF s[i] = 223 THEN <<83, 83>>
        ELSE IF s[i] = 255 THEN <<376>>
        ELSE IF s[i] = 181 THEN <<924>>
        ELSE <<s[i]>>])

\* the regex class \w (re.UNICODE) on ASCII and Latin-1
IsWord(c) ==
    \/ c >= 48 /\ c <= 57
    \/ c >= 65 /\ c <= 90
    \/ c >= 97 /\ c <= 122
    \/ c \in {95, 170, 178, 179, 181, 185, 186, 188, 189, 190}
    \/ c >= 192 /\ c <= 255 /\ c \notin {215, 247}

\* _TOKEN_SPLIT_RE.sub(" ", s): every run of non-word characters becomes
\* one space
SubNonWord(s) ==
    LET m  == [i \in 1..Len(s) |-> IF IsWord(s[i]) THEN s[i] ELSE 32]
        Kept(t, i) == t[i] # 32 \/ i = 1 \/ t[i - 1] # 32
        ks == Positions(m, Kept)
    IN  [k \in 1..Len(ks) |-> m[ks[k]]]

\* s.split(): the maximal runs of non-whitespace characters
SplitWs(s) ==
    LET Starts(t, i) == ~IsSpace(t[i]) /\ (i = 1 \/ IsSpace(t[i - 1]))
        Ends(t, i)   == ~IsSpace(t[i]) /\ (i = Len(t) \/ IsSpace(t[i + 1]))
        a == Positions(s, Starts)
        b == Positions(s, Ends)
    IN  [k \in 1..Len(a) |-> SubSeq(s, a[k], b[k])]

\* "the", "a", "an", "and", "of", "in", "for", "on"
_STOPWORDS ==
    {<<116, 104, 101>>, <<97>>, <<97, 110>>, <<97, 110, 100>>, <<111, 102>>, <<105, 110>>, <<102, 111, 114>>, <<111, 110>>}

_sanitize_phrase(text) ==
    IF text = <<>> THEN <<>>
    ELSE Strip(SubNonWord(Lower(Replace(text, <<38>>, <<32, 97, 110, 100, 32>>))))

\* _tokenize without the len(tok) > 1 test
TokenizeKeepingShort(text) ==
    IF text = <<>> THEN <<>>
    ELSE SelectSeq(SplitWs(_sanitize_phrase(text)), LAMBDA tok : tok \notin _STOPWORDS)

_tokenize(text) ==
    IF text = <<>> THEN <<>>
    ELSE SelectSeq(SplitWs(_sanitize_phrase(text)),
                   LAMBDA tok : Len(tok) > 1 /\ tok \notin _STOPWORDS)

\* the loop of _matches_strict cut down to its first iteration
TokensMatchAtStart(candidate_tokens, phrase_tokens) ==
    \/ phrase_tokens = <<>>
    \/ Slice(candidate_tokens, 0, Len(phrase_tokens)) = phrase_tokens

\* the loop of _matches_strict: the phrase tokens at some offset of the
\* candidate tokens
TokensMatch(candidate_tokens, phrase_tokens) ==
    \/ phrase_tokens = <<>>
    \/ \E idx \in 0..(Max(1, Len(candidate_tokens) - Len(phrase_tokens) + 1) - 1) :
           Slice(candidate_tokens, idx, idx + Len(phrase_tokens)) = phrase_tokens

\* _matches_strict from the sanitized title on
CandidateMatches(candidate, strict_phrase) ==
    IF candidate = <<>> THEN FALSE
    ELSE IF candidate = strict_phrase THEN TRUE
    ELSE TokensMatch(SplitWs(candidate), SplitWs(strict_phrase))

\* strict_phrase is None or a text
_matches_strict(title, strict_phrase) ==
    IF ~Truthy(strict_phrase) THEN TRUE
    ELSE CandidateMatches(_sanitize_phrase(title), strict_phrase.s)

----------------------------------------------------------------------------
(* Field names of upstream records, result items and the query metadata   *)

K_0 == <<48>>
K_6 == <<54>>
K_7 == <<55>>
K_10 == <<49, 48>>
K_11 == <<49, 49>>
K_12 == <<49, 50>>
K_14 == <<49, 52>>
K_id == <<105, 100>>
K_subject == <<115, 117, 98, 106, 101, 99, 116>>
K_size == <<115, 105, 122, 101>>
K_poster == <<112, 111, 115, 116, 101, 114>>
K_dtime == <<100, 116, 105, 109, 101>>
K_date == <<100, 97, 116, 101>>
K_fn == <<102, 110>>
K_extension == <<101, 120, 116, 101, 110, 115, 105, 111, 110>>
K_duration == <<100, 117, 114, 97, 116, 105, 111, 110>>
K_len == <<108, 101, 110>>
K_fullres == <<102, 117, 108, 108, 114, 101, 115>>
K_resolution == <<114, 101, 115, 111, 108, 117, 116, 105, 111, 110>>
K_passwd == <<112, 97, 115, 115, 119, 100>>
K_password == <<112, 97, 115, 115, 119, 111, 114, 100>>
K_virus == <<118, 105, 114, 117, 115>>
K_type == <<116, 121, 112, 101>>
K_file_type == <<102, 105, 108, 101, 95, 116, 121, 112, 101>>
K_posted == <<112, 111, 115, 116, 101, 100>>
K_duration_hms == <<100, 117, 114, 97, 116, 105, 111, 110, 95, 104, 109, 115>>
K_quality == <<113, 117, 97, 108, 105, 116, 121>>
K_thumbnail == <<116, 104, 117, 109, 98, 110, 97, 105, 108>>
K_year == <<121, 101, 97, 114>>
K_season == <<115, 101, 97, 115, 111, 110>>
K_episode == <<101, 112, 105, 115, 111, 100, 101>>
K_thumbURL == <<116, 104, 117, 109, 98, 85, 82, 76>>
K_thumbUrl == <<116, 104, 117, 109, 98, 85, 114, 108>>
K_data == <<100, 97, 116, 97>>

----------------------------------------------------------------------------
(* _is_flagged_item, _format_duration, _extract_quality,                   *)
(* _build_thumbnail_url, _extract_release_markers, _normalize_title        *)

\* ".mkv", ".mp4", ".m4v", ".avi", ".ts", ".mov", ".wmv", ".mpg", ".mpeg",
\* ".flv", ".webm"
_ALLOWED_VIDEO_EXTENSIONS ==
    {<<46, 109, 107, 118>>, <<46, 109, 112, 52>>, <<46, 109, 52, 118>>, <<46, 97, 118, 105>>, <<46, 116, 115>>, <<46, 109, 111, 118>>, <<46, 119, 109, 118>>,
     <<46, 109, 112, 103>>, <<46, 109, 112, 101, 103>>, <<46, 102, 108, 118>>, <<46, 119, 101, 98, 109>>}

\* the value of an int or a bool as a number
IntOf(v) == IF v.t = "bool" THEN (IF v.b THEN 1 ELSE 0) ELSE v.n

\* _is_flagged_item with "<=" for "<" in the duration test
IsFlaggedItemInclusive(item, ext, duration_seconds) ==
    LET isdict == item.t = "dict"
        passwd == isdict /\ Truthy(Or(Get(item.d, K_passwd), Get(item.d, K_password)))
        virus  == isdict /\ Truthy(Get(item.d, K_virus))
        file_type ==
            IF isdict
            THEN Upper(FormatValue(Or(Or(Get(item.d, K_type), Get(item.d, K_file_type)),
                                      Str(<<>>))))
            ELSE <<>>
    IN  \/ passwd
        \/ virus
        \/ file_type # <<>> /\ file_type # <<86, 73, 68, 69, 79>>
        \/ Truthy(ext) /\ Lower(ext.s) \notin _ALLOWED_VIDEO_EXTENSIONS
        \/ duration_seconds # None /\ IntOf(duration_seconds) <= _MIN_DURATION_SECONDS

\* item is the upstream record (a dict or a list), ext a text, and
\* duration_seconds None or a number
_is_flagged_item(item, ext, duration_seconds) ==
    LET isdict == item.t = "dict"
        passwd == isdict /\ Truthy(Or(Get(item.d, K_passwd), Get(item.d, K_password)))
        virus  == isdict /\ Truthy(Get(item.d, K_virus))
        file_type ==
            IF isdict
            THEN Upper(FormatValue(Or(Or(Get(item.d, K_type), Get(item.d, K_file_type)),
                                      Str(<<>>))))
            ELSE <<>>
    IN  \/ passwd
        \/ virus
        \/ file_type # <<>> /\ file_type # <<86, 73, 68, 69, 79>>
        \/ Truthy(ext) /\ Lower(ext.s) \notin _ALLOWED_VIDEO_EXTENSIONS
        \/ duration_seconds # None /\ IntOf(duration_seconds) < _MIN_DURATION_SECONDS

\* f"{n:02}"
Pad2(n) == IF n < 10 THEN <<48>> \o NatDigits(n) ELSE NatDigits(n)

_format_duration(seconds) ==
    IF seconds = None THEN None
    ELSE IF IntOf(seconds) <= 0 THEN None
    ELSE LET n == IntOf(seconds)
         IN  Str(Pad2(n \div 3600) \o <<58>> \o Pad2((n % 3600) \div 60)
                 \o <<58>> \o Pad2(n % 60))

\* the alternatives of _QUALITY_RE, in the order the regex tries them
QualityValues == <<<<50, 49, 54, 48>>, <<49, 52, 52, 48>>, <<49, 48, 56, 48>>, <<55, 50, 48>>, <<52, 56, 48>>, <<51, 54, 48>>>>

\* the match of _QUALITY_RE that starts at position i of a lower-cased
\* text: the value, any whitespace, then "p" or "i" when one follows
QualityAt(s, i) ==
    LET hits == {k \in 1..Len(QualityValues) : OccursAt(s, QualityValues[k], i)}
        k    == CHOOSE x \in hits : \A y \in hits : x <= y
        c    == At(s, SpacesEnd(s, i + Len(QualityValues[k])))
    IN  IF hits = {} THEN None
        ELSE Str(QualityValues[k] \o (IF c \in {112, 105} THEN <<c>> ELSE <<112>>))

\* one iteration of the loop of _extract_quality
QualityOfText(lowered) ==
    LET hits == {i \in 1..Len(lowered) : QualityAt(lowered, i) # None}
    IN  IF Contains(lowered, <<52, 107>>) THEN Str(<<50, 49, 54, 48, 112>>)
        ELSE IF hits # {}
        THEN QualityAt(lowered, CHOOSE i \in hits : \A j \in hits : i <= j)
        ELSE IF Contains(lowered, <<117, 104, 100>>) THEN Str(<<50, 49, 54, 48, 112>>)
        ELSE IF Contains(lowered, <<102, 104, 100>>) THEN Str(<<49, 48, 56, 48, 112>>)
        ELSE None

\* texts is the sequence of the arguments, each None or a text
RECURSIVE _extract_quality(_)
_extract_quality(texts) ==
    IF texts = <<>> THEN None
    ELSE IF ~Truthy(texts[1]) THEN _extract_quality(Tail(texts))
    ELSE LET q == QualityOfText(Lower(texts[1].s))
         IN  IF q # None THEN q ELSE _extract_quality(Tail(texts))

\* urllib.parse.quote: letters, digits and "_.-~/" stay, every other
\* character becomes %XX for each byte of its UTF-8 encoding
Quote(s) ==
    LET Hex(n) == IF n < 10 THEN 48 + n ELSE 55 + n
        One(c) ==
            IF \/ c >= 48 /\ c <= 57
               \/ c >= 65 /\ c <= 90
               \/ c >= 97 /\ c <= 122
               \/ c \in {95, 46, 45, 126, 47}
            THEN <<c>>
            ELSE LET b == Utf8EncodeChar(c)
                 IN  Flatten([i \in 1..Len(b) |-> <<37, Hex(b[i] \div 16), Hex(b[i] % 16)>>])
    IN  Flatten([i \in 1..Len(s) |-> One(s[i])])

\* s.rstrip("/")
RECURSIVE RStripSlash(_)
RStripSlash(s) ==
    IF s # <<>> /\ s[Len(s)] = 47 THEN RStripSlash(SubSeq(s, 1, Len(s) - 1)) ELSE s

_build_thumbnail_url(base, hash_id, slug) ==
    IF ~Truthy(base) \/ ~Truthy(hash_id) THEN None
    ELSE LET b         == RStripSlash(base.s) \o <<47>>
             prefix    == Slice(hash_id.s, 0, 3)
             safe_slug == Quote(Replace(Or(slug, hash_id).s, <<47>>, <<95>>))
         IN  Str(b \o prefix \o <<47, 112, 114, 45>> \o hash_id.s \o <<46, 106, 112, 103, 47, 116, 104, 45>>
                 \o safe_slug \o <<46, 106, 112, 103>>)

\* \d{1,2} followed by the letter c in either case: the number of digits
\* the regex settles on (two when it can, else one), 0 when it fails
DigitsBefore(s, i, c) ==
    IF IsDecimal(At(s, i)) /\ IsDecimal(At(s, i + 1)) /\ LowerChar(At(s, i + 2)) = c
    THEN 2
    ELSE IF IsDecimal(At(s, i)) /\ LowerChar(At(s, i + 1)) = c THEN 1
    ELSE 0

\* a closing \d{1,2}: two digits when there are two
DigitsRun(s, i) ==
    IF IsDecimal(At(s, i)) /\ IsDecimal(At(s, i + 1)) THEN 2
    ELSE IF IsDecimal(At(s, i)) THEN 1
    ELSE 0

\* the match of _SEASON_YEAR_RE that starts at position i (len = 0: none);
\* the alternatives in the order the regex tries them: s<d>e<d>, <d>x<d>,
\* then a year 19dd or 20dd
MarkerAt(s, i) ==
    LET d1 == DigitsBefore(s, i + 1, 101)
        e1 == DigitsRun(s, i + d1 + 2)
        d2 == DigitsBefore(s, i, 120)
        e2 == DigitsRun(s, i + d2 + 1)
    IN  IF LowerChar(At(s, i)) = 115 /\ d1 > 0 /\ e1 > 0
        THEN [len |-> d1 + e1 + 2,
              season  |-> Num(DigitsValue(SubSeq(s, i + 1, i + d1))),
              episode |-> Num(DigitsValue(SubSeq(s, i + d1 + 2, i + d1 + 1 + e1))),
              year    |-> None]
        ELSE IF d2 > 0 /\ e2 > 0
        THEN [len |-> d2 + e2 + 1,
              season  |-> Num(DigitsValue(SubSeq(s, i, i + d2 - 1))),
              episode |-> Num(DigitsValue(SubSeq(s, i + d2 + 1, i + d2 + e2))),
              year    |-> None]
        ELSE IF /\ (OccursAt(s, <<49, 57>>, i) \/ OccursAt(s, <<50, 48>>, i))
                /\ IsDecimal(At(s, i + 2)) /\ IsDecimal(At(s, i + 3))
        THEN [len |-> 4, season |-> None, episode |-> None,
              year |-> Num(DigitsValue(SubSeq(s, i, i + 3)))]
        ELSE [len |-> 0, season |-> None, episode |-> None, year |-> None]

\* PutNew that overwrites a key info has
PutLast(info, k, v) == IF v = None THEN info ELSE Put(info, k, v)

\* info[k] = v unless info has k or v is None
PutNew(info, k, v) == IF v = None \/ k \in DOMAIN info THEN info ELSE Put(info, k, v)

\* the finditer loop from position i on: matches leftmost first and not
\* overlapping, the first season, episode and year win
RECURSIVE ScanMarkers(_, _, _)
ScanMarkers(s, i, info) ==
    LET hits == {k \in i..Len(s) : MarkerAt(s, k).len > 0}
        k    == CHOOSE x \in hits : \A y \in hits : x <= y
        m    == MarkerAt(s, k)
    IN  IF hits = {} THEN info
        ELSE ScanMarkers(s, k + m.len,
                 PutNew(PutNew(PutNew(info, K_season, m.season), K_episode, m.episode),
                        K_year, m.year))

\* the info dict: text is a text, quality_hint None or a text
_extract_release_markers(text, quality_hint) ==
    IF text = <<>> THEN <<>>
    ELSE LET info    == ScanMarkers(text, 1, <<>>)
             quality == Or(quality_hint, _extract_quality(<<Str(text)>>))
         IN  IF Truthy(quality) THEN Put(info, K_quality, quality) ELSE info

\* the character references html.unescape resolves in the texts of this
\* model: &amp &lt &gt &quot, with or without the closing semicolon
HtmlEntities ==
    <<[name |-> <<38, 97, 109, 112>>, c |-> 38], [name |-> <<38, 108, 116>>, c |-> 60],
      [name |-> <<38, 103, 116>>, c |-> 62], [name |-> <<38, 113, 117, 111, 116>>, c |-> 34]>>

\* the reference that starts at position i: [len, c], len = 0 when none
EntityAt(s, i) ==
    LET hits == {k \in 1..Len(HtmlEntities) : OccursAt(s, HtmlEntities[k].name, i)}
        e    == HtmlEntities[CHOOSE k \in hits : TRUE]
        n    == Len(e.name)
    IN  IF hits = {} THEN [len |-> 0, c |-> 0]
        ELSE [len |-> IF At(s, i + n) = 59 THEN n + 1 ELSE n, c |-> e.c]

HtmlUnescape(s) ==
    Flatten([i \in 1..Len(s) |->
        IF EntityAt(s, i).len > 0 THEN <<EntityAt(s, i).c>>
        ELSE IF \E k \in 1..(i - 1) : k + EntityAt(s, k).len > i THEN <<>>
        ELSE <<s[i]>>])

\* the last "(...)" group without inner parentheses whose content is not
\* blank, else the whole text
LastGroup(text) ==
    LET Opens(j) == {i \in 1..(j - 1) :
                        text[i] = 40 /\ \A k \in (i + 1)..(j - 1) : text[k] \notin {40, 41}}
        Inner(j) == Strip(SubSeq(text, (CHOOSE x \in Opens(j) : TRUE) + 1, j - 1))
        good == {j \in 1..Len(text) :
                    text[j] = 41 /\ Opens(j) # {} /\ Inner(j) # <<>>}
    IN  IF text = <<>> \/ good = {} THEN text
        ELSE Inner(CHOOSE j \in good : \A k \in good : k <= j)

\* raw is None or a text
_normalize_title(raw) ==
    LastGroup(Strip(HtmlUnescape(IF Truthy(raw) THEN raw.s ELSE <<>>)))

----------------------------------------------------------------------------
(* filter_and_map                                                          *)

\* the elements of a sequence
Range(s) == {s[i] : i \in 1..Len(s)}

\* sep.join(parts)
Join(parts, sep) ==
    Flatten([i \in 1..Len(parts) |-> IF i = 1 THEN parts[i] ELSE sep \o parts[i]])

\* the fields the loop reads off one upstream record: positions of an
\* array-shaped record, keys with their fallbacks of a map-shaped one
RecordFields(it) ==
    IF it.t = "list" THEN
        LET n == Len(it.a)
        IN  [hash_id         |-> IF n >= 12 THEN it.a[1] ELSE None,
             subject         |-> IF n >= 12 THEN it.a[7] ELSE None,
             filename_no_ext |-> IF n >= 12 THEN it.a[11] ELSE None,
             ext             |-> IF n >= 12 THEN it.a[12] ELSE None,
             size            |-> Num(0),
             poster          |-> IF n > 7 THEN it.a[8] ELSE None,
             posted_raw      |-> IF n > 8 THEN it.a[9] ELSE None,
             sig             |-> None,
             display_fn      |-> None,
             extension_field |-> None,
             duration_raw    |-> IF n > 14 THEN it.a[15] ELSE None,
             fullres         |-> None]
    ELSE IF it.t = "dict" THEN
        [hash_id         |-> Or(Or(Get(it.d, K_hash), Get(it.d, K_0)), Get(it.d, K_id)),
         subject         |-> Or(Get(it.d, K_subject), Get(it.d, K_6)),
         filename_no_ext |-> Or(Get(it.d, K_filename), Get(it.d, K_10)),
         ext             |-> Or(Get(it.d, K_ext), Get(it.d, K_11)),
         size            |-> IF K_size \in DOMAIN it.d THEN it.d[K_size] ELSE Num(0),
         poster          |-> Or(Get(it.d, K_poster), Get(it.d, K_7)),
         posted_raw      |-> Or(Or(Get(it.d, K_dtime), Get(it.d, K_date)), Get(it.d, K_12)),
         sig             |-> Get(it.d, K_sig),
         display_fn      |-> Or(Get(it.d, K_fn), Get(it.d, K_filename)),
         extension_field |-> Or(Get(it.d, K_extension), Get(it.d, K_ext)),
         duration_raw    |-> Or(Or(Get(it.d, K_14), Get(it.d, K_duration)), Get(it.d, K_len)),
         fullres         |-> Or(Get(it.d, K_fullres), Get(it.d, K_resolution))]
    ELSE
        [hash_id |-> None, subject |-> None, filename_no_ext |-> None, ext |-> None,
         size |-> Num(0), poster |-> None, posted_raw |-> None, sig |-> None,
         display_fn |-> None, extension_field |-> None, duration_raw |-> None,
         fullres |-> None]

\* an int (or bool) stays, anything else goes through int(), 0 when that
\* raises
CoerceSize(size) ==
    IF size.t \in {"int", "bool"} THEN size
    ELSE IF size.t = "str" THEN Num(PyInt(size.s).n)
    ELSE Num(0)

\* the extension appended to a display title, with its dot
DottedExt(component) ==
    IF component # <<>> /\ component[1] # 46 THEN <<46>> \o component ELSE component

\* the display file name without surrounding whitespace as a title
CleanedTitle(cleaned, component) ==
    IF cleaned = <<>> THEN <<>>
    ELSE Join(SelectSeq(SplitOn(Replace(cleaned, <<32, 45, 32>>, <<45>>), 32),
                        LAMBDA p : p # <<>>),
              <<46>>)
         \o DottedExt(component)

\* the title built from the display file name, <<>> when there is none
DisplayTitle(f, ext) ==
    IF ~Truthy(f.display_fn) THEN <<>>
    ELSE CleanedTitle(Strip(f.display_fn.s), Or(Or(f.extension_field, ext), Str(<<>>)).s)

\* the title, or the normalized fallback when there is none
TitleOr(title, fallback) == IF title # <<>> THEN title ELSE _normalize_title(fallback)

\* the title of a record: the display title, else the normalized subject,
\* else the normalized file name with its extension
ResolveTitle(f, filename_no_ext, ext) ==
    TitleOr(DisplayTitle(f, ext),
            Or(f.subject, Str(FormatValue(filename_no_ext) \o FormatValue(ext))))

\* the structured metadata test: whether the candidate is dropped
MetaRejects(query_meta, title_meta, quality) ==
    LET q_year    == Get(query_meta, K_year)
        q_season  == Get(query_meta, K_season)
        q_episode == Get(query_meta, K_episode)
        q_quality == Get(query_meta, K_quality)
        t_year    == Get(title_meta, K_year)
        t_season  == Get(title_meta, K_season)
        t_episode == Get(title_meta, K_episode)
        t_quality == Or(quality, Get(title_meta, K_quality))
    IN  /\ DOMAIN query_meta # {}
        /\ \/ Truthy(q_year) /\ Truthy(t_year) /\ q_year # t_year
           \/ Truthy(q_season) /\ Truthy(t_season) /\ q_season # t_season
           \/ Truthy(q_episode) /\ Truthy(t_episode) /\ q_episode # t_episode
           \/ /\ Truthy(q_quality)
              /\ Truthy(t_quality)
              /\ Lower(q_quality.s) # Lower(t_quality.s)

\* whether the title tokens fail the query tokens
TitleLacks(token_set, title_tokens) ==
    title_tokens = {} \/ ~(token_set \subseteq title_tokens)

\* the token test: whether the candidate is dropped
TokenRejects(token_set, title) ==
    token_set # {} /\ TitleLacks(token_set, Range(_tokenize(title)))

\* the dict appended to out
ResultItem(f, filename_no_ext, ext, size, title, duration_seconds, quality, title_meta, thumb_base) ==
    (K_hash :> f.hash_id) @@ (K_filename :> filename_no_ext) @@ (K_ext :> ext)
    @@ (K_sig :> f.sig) @@ (K_size :> size) @@ (K_title :> Str(title))
    @@ (K_poster :> f.poster) @@ (K_posted :> f.posted_raw)
    @@ (K_duration :> duration_seconds)
    @@ (K_duration_hms :> _format_duration(duration_seconds))
    @@ (K_quality :> quality)
    @@ (K_thumbnail :> _build_thumbnail_url(thumb_base, f.hash_id, filename_no_ext))
    @@ (K_year :> Get(title_meta, K_year))
    @@ (K_season :> Get(title_meta, K_season))
    @@ (K_episode :> Get(title_meta, K_episode))

\* "continue": the record is dropped
Skip == [ok |-> TRUE, keep |-> FALSE, item |-> <<>>]

\* the quality of the candidate: the one read off the title and the
\* resolution, else the one among the release markers
QualityOf(quality, title_meta) ==
    IF ~Truthy(quality) /\ Truthy(Get(title_meta, K_quality))
    THEN Get(title_meta, K_quality) ELSE quality

\* the strict, metadata and token tests, then the append
MatchStep(f, size, dur, title, quality, title_meta, thumb_base, token_set, query_meta, strict_phrase, strict_match) ==
    IF strict_match /\ ~_matches_strict(title, strict_phrase) THEN Skip
    ELSE IF MetaRejects(query_meta, title_meta, QualityOf(quality, title_meta)) THEN Skip
    ELSE IF TokenRejects(token_set, title) THEN Skip
    ELSE [ok |-> TRUE, keep |-> TRUE,
          item |-> ResultItem(f, Or(f.filename_no_ext, Str(<<>>)), f.ext, size, title, dur,
                              QualityOf(quality, title_meta), title_meta, thumb_base)]

\* the release markers of the title
MarkerStep(f, size, dur, title, quality, thumb_base, token_set, query_meta, strict_phrase, strict_match) ==
    MatchStep(f, size, dur, title, quality, _extract_release_markers(title, quality),
              thumb_base, token_set, query_meta, strict_phrase, strict_match)

\* the quality of the title and the resolution
QualityStep(f, size, dur, title, thumb_base, token_set, query_meta, strict_phrase, strict_match) ==
    MarkerStep(f, size, dur, title, _extract_quality(<<Str(title), f.fullres>>),
               thumb_base, token_set, query_meta, strict_phrase, strict_match)

\* the flag filter, then the title; the iteration raises when
\* _parse_duration_seconds did
FlagStep(it, f, size, dur, thumb_base, token_set, query_meta, strict_phrase, strict_match) ==
    IF ~dur.ok THEN [ok |-> FALSE, keep |-> FALSE, item |-> <<>>]
    ELSE IF _is_flagged_item(it, f.ext, dur.v) THEN Skip
    ELSE QualityStep(f, size, dur.v,
                     ResolveTitle(f, Or(f.filename_no_ext, Str(<<>>)), f.ext),
                     thumb_base, token_set, query_meta, strict_phrase, strict_match)

\* SizeStep without the test of the hash
SizeStepWithoutHash(it, f, size, thumb_base, min_bytes, token_set, query_meta, strict_phrase, strict_match) ==
    IF ~Truthy(f.ext) THEN Skip
    ELSE IF IntOf(size) < min_bytes THEN Skip
    ELSE FlagStep(it, f, size, _parse_duration_seconds(f.duration_raw),
                  thumb_base, token_set, query_meta, strict_phrase, strict_match)

\* SizeStep with "<=" for "<" in the size test
SizeStepExclusive(it, f, size, thumb_base, min_bytes, token_set, query_meta, strict_phrase, strict_match) ==
    IF ~Truthy(f.hash_id) \/ ~Truthy(f.ext) THEN Skip
    ELSE IF IntOf(size) <= min_bytes THEN Skip
    ELSE FlagStep(it, f, size, _parse_duration_seconds(f.duration_raw),
                  thumb_base, token_set, query_meta, strict_phrase, strict_match)

\* the hash, extension and size tests, then the duration
SizeStep(it, f, size, thumb_base, min_bytes, token_set, query_meta, strict_phrase, strict_match) ==
    IF ~Truthy(f.hash_id) \/ ~Truthy(f.ext) THEN Skip
    ELSE IF IntOf(size) < min_bytes THEN Skip
    ELSE FlagStep(it, f, size, _parse_duration_seconds(f.duration_raw),
                  thumb_base, token_set, query_meta, strict_phrase, strict_match)

\* one iteration of the loop: [ok, keep, item]; ok = FALSE when the
\* iteration raises, keep = FALSE on "continue"
ProcessRecord(it, thumb_base, min_bytes, token_set, query_meta, strict_phrase, strict_match) ==
    SizeStep(it, RecordFields(it), CoerceSize(RecordFields(it).size),
             thumb_base, min_bytes, token_set, query_meta, strict_phrase, strict_match)

RECURSIVE FilterLoop(_, _, _, _, _, _, _, _, _)

\* the loop after the iteration on the record at position i gave r
LoopStep(data, i, out, r, thumb_base, min_bytes, token_set, query_meta, strict_phrase, strict_match) ==
    IF ~r.ok THEN [ok |-> FALSE, out |-> <<>>]
    ELSE FilterLoop(data, i + 1, IF r.keep THEN Append(out, r.item) ELSE out,
                    thumb_base, min_bytes, token_set, query_meta, strict_phrase,
                    strict_match)

\* the loop over the records from position i on, out the items appended so
\* far
FilterLoop(data, i, out, thumb_base, min_bytes, token_set, query_meta, strict_phrase, strict_match) ==
    IF i > Len(data) THEN [ok |-> TRUE, out |-> out]
    ELSE LoopStep(data, i, out,
                  ProcessRecord(data[i], thumb_base, min_bytes, token_set, query_meta,
                                strict_phrase, strict_match),
                  thumb_base, min_bytes, token_set, query_meta, strict_phrase,
                  strict_match)

\* json_data is the upstream response (a dict), query_tokens a sequence of
\* texts, query_meta a dict, strict_phrase None or a text; [ok, out] with
\* ok = FALSE when the call raises
filter_and_map(json_data, min_bytes, query_tokens, query_meta, strict_phrase, strict_match) ==
    FilterLoop(IF K_data \in DOMAIN json_data THEN json_data[K_data].a ELSE <<>>,
               1, <<>>,
               Or(Get(json_data, K_thumbURL), Get(json_data, K_thumbUrl)),
               min_bytes, Range(query_tokens), query_meta, strict_phrase, strict_match)

----------------------------------------------------------------------------
(* The search branch of api: what the handler derives from the request     *)
(* arguments (a dict from argument names to texts)                         *)

K_t == <<116>>
K_q == <<113>>
K_seasonnum == <<115, 101, 97, 115, 111, 110, 110, 117, 109>>
K_ep == <<101, 112>>
K_epnum == <<101, 112, 110, 117, 109>>
K_yr == <<121, 114>>
K_strict == <<115, 116, 114, 105, 99, 116>>
K_limit == <<108, 105, 109, 105, 116>>
K_offset == <<111, 102, 102, 115, 101, 116>>
K_minsize == <<109, 105, 110, 115, 105, 122, 101>>
K_apikey == <<97, 112, 105, 107, 101, 121>>

\* the int of a parse result, None when it raised
IntOrNone(r) == IF r.ok THEN Num(r.n) ELSE None

_as_int(value) ==
    IF value = None THEN None ELSE IntOrNone(PyInt(Strip(FormatValue(value))))

\* f"{n:02}"
Format02(n) == IF n < 0 THEN IntText(n) ELSE Pad2(n)

\* the strict values that switch strict matching off: "0", "false", "no",
\* "off"
StrictOff == {<<48>>, <<102, 97, 108, 115, 101>>, <<110, 111>>, <<111, 102, 102>>}

\* the search label, or the base query when the label is empty
RawQuery(search_label, base_query) ==
    IF search_label # <<>> THEN search_label ELSE base_query

\* the components of the search label: the base query, then for tvsearch
\* S<season>E<episode> or S<season>, then for movie and tvsearch the year
\* when the base query does not hold it
SearchComponents(t, base_query, season_int, episode_int, year_int) ==
    LET year_part == IF Truthy(year_int) /\ ~Contains(base_query, IntText(year_int.n))
                     THEN <<IntText(year_int.n)>> ELSE <<>>
        tv_part   == IF season_int # None /\ episode_int # None
                     THEN <<<<83>> \o Format02(season_int.n)
                            \o <<69>> \o Format02(episode_int.n)>>
                     ELSE IF season_int # None
                     THEN <<<<83>> \o Format02(season_int.n)>>
                     ELSE <<>>
    IN  (IF base_query # <<>> THEN <<base_query>> ELSE <<>>)
        \o (IF t = <<109, 111, 118, 105, 101>> THEN year_part
            ELSE IF t = <<116, 118, 115, 101, 97, 114, 99, 104>> THEN tv_part \o year_part
            ELSE <<>>)

\* the markers of the raw query, overridden by the year (when not 0), the
\* season and the episode of the request
QueryMeta(meta, season_int, episode_int, year_int) ==
    [k \in DOMAIN meta \cup (IF Truthy(year_int) THEN {K_year} ELSE {})
                       \cup (IF season_int # None THEN {K_season} ELSE {})
                       \cup (IF episode_int # None THEN {K_episode} ELSE {}) |->
        IF k = K_episode /\ episode_int # None THEN episode_int
        ELSE IF k = K_season /\ season_int # None THEN season_int
        ELSE IF k = K_year /\ Truthy(year_int) THEN year_int
        ELSE meta[k]]

\* whether strict matching is requested
StrictRequested(t, strict_param) ==
    IF strict_param # None THEN Lower(Strip(strict_param.s)) \notin StrictOff
    ELSE t = <<109, 111, 118, 105, 101>>

\* MinBytes without the floor of 100 under a number
MinBytesNoFloor(min_size_param) ==
    IF Truthy(min_size_param) /\ PyInt(min_size_param.s).ok
    THEN PyInt(min_size_param.s).n * 1024 * 1024
    ELSE 100 * 1024 * 1024

\* the size floor in bytes
MinBytes(min_size_param) ==
    IF Truthy(min_size_param) /\ PyInt(min_size_param.s).ok
    THEN Max(100, PyInt(min_size_param.s).n) * 1024 * 1024
    ELSE 100 * 1024 * 1024

\* everything the branch derives, from the raw query on
QueryArgs(raw_query, stripped, query_meta, strict_requested, limit, offset, min_bytes) ==
    [ok               |-> limit.ok /\ offset.ok,
     raw_query        |-> raw_query,
     q                |-> IF stripped = <<>> \/ Lower(stripped) = <<116, 101, 115, 116>>
                          THEN <<109, 97, 116, 114, 105, 120>> ELSE stripped,
     fallback_query   |-> stripped = <<>> \/ Lower(stripped) = <<116, 101, 115, 116>>,
     query_tokens     |-> _tokenize(raw_query),
     query_meta       |-> query_meta,
     strict_requested |-> strict_requested,
     strict_phrase    |-> IF strict_requested THEN Str(_sanitize_phrase(raw_query))
                          ELSE None,
     limit            |-> limit.n,
     offset           |-> offset.n,
     min_bytes        |-> min_bytes]

\* the branch from the raw query on
RawQueryArgs(args, t, raw_query, season_int, episode_int, year_int) ==
    QueryArgs(raw_query, Strip(raw_query),
              QueryMeta(_extract_release_markers(raw_query, None),
                        season_int, episode_int, year_int),
              StrictRequested(t, Get(args, K_strict)),
              PyInt(IF K_limit \in DOMAIN args THEN args[K_limit].s ELSE <<49, 48, 48>>),
              PyInt(IF K_offset \in DOMAIN args THEN args[K_offset].s ELSE <<48>>),
              MinBytes(Get(args, K_minsize)))

\* the branch from the parsed arguments on
ParsedArgs(args, t, base_query, season_int, episode_int, year_int) ==
    RawQueryArgs(args, t,
                 RawQuery(Strip(Join(SelectSeq(SearchComponents(t, base_query, season_int,
                                                                episode_int, year_int),
                                               LAMBDA p : p # <<>>),
                                     <<32>>)),
                          base_query),
                 season_int, episode_int, year_int)

\* [ok, ...]: ok = FALSE when int() raises on limit or offset
SearchArgs(args) ==
    ParsedArgs(args,
               IF K_t \in DOMAIN args THEN args[K_t].s ELSE <<99, 97, 112, 115>>,
               Strip(Or(Get(args, K_q), Str(<<>>)).s),
               _as_int(Or(Get(args, K_season), Get(args, K_seasonnum))),
               _as_int(Or(Or(Get(args, K_ep), Get(args, K_epnum)), Get(args, K_episode))),
               _as_int(Or(Get(args, K_year), Get(args, K_yr))))

\* the call of filter_and_map with the derived arguments a
FilterCall(data, a) ==
    filter_and_map(data, a.min_bytes, a.query_tokens, a.query_meta, a.strict_phrase,
                   a.strict_requested)

----------------------------------------------------------------------------
(* The /api handler: require_apikey, client and the branches of api.  A    *)
(* request is [args, header]: the query arguments (a dict of texts) and    *)
(* the X-Api-Key header (a text or None).  What the upstream answers is an *)
(* input of the operators.  A branch gives [response, calls, client,       *)
(* last]: the response, the upstream calls it made, and _CLIENT and        *)
(* _CLIENT_LAST_LOGIN afterwards.                                          *)

API_KEY == <<116, 101, 115, 116, 107, 101, 121>>

_CLIENT_LOGIN_TTL == 600

\* Retry(total=5, status_forcelist=[500, 502, 503, 504]) on GET
RetryTotal == 5

StatusForcelist == {500, 502, 503, 504}

\* request.args.get("apikey") or request.headers.get("X-Api-Key"), compared
\* with API_KEY
require_apikey(req) == Or(Get(req.args, K_apikey), req.header) = Str(API_KEY)

\* request.args.get("t", "caps")
ArgT(req) == IF K_t \in DOMAIN req.args THEN req.args[K_t].s ELSE <<99, 97, 112, 115>>

\* one upstream call: login() (its credential check), the search GET or the
\* manifest POST, with the status and the content the upstream answered
Call(op, status, query, payload, content) ==
    [op |-> op, status |-> status, query |-> query, payload |-> payload,
     content |-> content]

\* Response(body, status, mimetype); title and feed are the channel title
\* and the items of an RSS body, filename the one of Content-Disposition
Response(status, mimetype, body) ==
    [status |-> status, mimetype |-> mimetype, body |-> body, title |-> <<>>,
     feed |-> <<>>, filename |-> <<>>]

\* what Flask answers when the view raises: no error handler is registered
InternalServerError == Response(500, "text/html", <<53, 48, 48, 32, 73, 110, 116, 101, 114, 110, 97, 108, 32, 83, 101, 114, 118, 101, 114, 32, 69, 114, 114, 111, 114>>)

Result(resp, made, cl, last) ==
    [response |-> resp, calls |-> made, client |-> cl, last |-> last]

\* login(): raises EasynewsError when the check is answered 401 or 403
LoginRaises(status) == status \in {401, 403}

LoginCall(status) == Call("login", status, <<>>, <<>>, <<>>)

\* client() at time t with the globals cl and last, logins the statuses the
\* upstream answers to the first and the second login(); _CLIENT is None or
\* Num(k), the k-th EasynewsClient created; ok = FALSE when login() raises
client(cl, last, t, logins) ==
    IF cl = None THEN
        IF LoginRaises(logins[1])
        THEN [ok |-> FALSE, client |-> Num(1), last |-> last,
              calls |-> <<LoginCall(logins[1])>>]
        ELSE [ok |-> TRUE, client |-> Num(1), last |-> t,
              calls |-> <<LoginCall(logins[1])>>]
    ELSE IF t - last > _CLIENT_LOGIN_TTL THEN
        IF ~LoginRaises(logins[1])
        THEN [ok |-> TRUE, client |-> cl, last |-> t, calls |-> <<LoginCall(logins[1])>>]
        ELSE IF ~LoginRaises(logins[2])
        THEN [ok |-> TRUE, client |-> Num(cl.n + 1), last |-> t,
              calls |-> <<LoginCall(logins[1]), LoginCall(logins[2])>>]
        ELSE [ok |-> FALSE, client |-> Num(cl.n + 1), last |-> last,
              calls |-> <<LoginCall(logins[1]), LoginCall(logins[2])>>]
    ELSE [ok |-> TRUE, client |-> cl, last |-> last, calls |-> <<>>]

\* the caps document
CapsXml ==
    <<60, 63, 120, 109, 108, 32, 118, 101, 114, 115, 105, 111, 110, 61, 34, 49, 46, 48, 34, 32, 101, 110, 99, 111, 100, 105, 110, 103, 61, 34, 85, 84, 70, 45, 56, 34, 63, 62, 60, 99, 97, 112, 115, 62, 60, 115, 101, 114, 118, 101, 114, 32, 118, 101, 114, 115, 105, 111, 110, 61, 34, 48, 46, 49, 34, 32, 116, 105, 116, 108, 101, 61, 34, 69, 97, 115, 121, 110, 101, 119, 115, 32, 66, 114, 105, 100, 103, 101, 34, 47, 62, 60, 108, 105, 109, 105, 116, 115, 32, 109, 97, 120, 114, 101, 113, 117, 101, 115, 116, 115, 61, 34, 49, 48, 48, 34, 32, 100, 101, 102, 97, 117, 108, 116, 108, 105, 109, 105, 116, 61, 34, 49, 48, 48, 34, 47, 62, 60, 114, 101, 103, 105, 115, 116, 114, 97, 116, 105, 111, 110, 32, 97, 118, 97, 105, 108, 97, 98, 108, 101, 61, 34, 110, 111, 34, 32, 111, 112, 101, 110, 61, 34, 110, 111, 34, 47, 62, 60, 115, 101, 97, 114, 99, 104, 105, 110, 103, 62, 60, 115, 101, 97, 114, 99, 104, 32, 97, 118, 97, 105, 108, 97, 98, 108, 101, 61, 34, 121, 101, 115, 34, 32, 115, 117, 112, 112, 111, 114, 116, 101, 100, 80, 97, 114, 97, 109, 115, 61, 34, 113, 34, 47, 62, 60, 109, 111, 118, 105, 101, 45, 115, 101, 97, 114, 99, 104, 32, 97, 118, 97, 105, 108, 97, 98, 108, 101, 61, 34, 121, 101, 115, 34, 32, 115, 117, 112, 112, 111, 114, 116, 101, 100, 80, 97, 114, 97, 109, 115, 61, 34, 113, 44, 121, 101, 97, 114, 34, 47, 62, 60, 116, 118, 45, 115, 101, 97, 114, 99, 104, 32, 97, 118, 97, 105, 108, 97, 98, 108, 101, 61, 34, 121, 101, 115, 34, 32, 115, 117, 112, 112, 111, 114, 116, 101, 100, 80, 97, 114, 97, 109, 115, 61, 34, 113, 44, 115, 101, 97, 115, 111, 110, 44, 101, 112, 34, 47, 62, 60, 47, 115, 101, 97, 114, 99, 104, 105, 110, 103, 62, 60, 99, 97, 116, 101, 103, 111, 114, 105, 101, 115, 62, 60, 99, 97, 116, 101, 103, 111, 114, 121, 32, 105, 100, 61, 34, 50, 48, 48, 48, 34, 32, 110, 97, 109, 101, 61, 34, 77, 111, 118, 105, 101, 115, 34, 47, 62, 60, 47, 99, 97, 116, 101, 103, 111, 114, 105, 101, 115, 62, 60, 47, 99, 97, 112, 115, 62>>

Unauthorized == Response(401, "text/html", <<85, 110, 97, 117, 116, 104, 111, 114, 105, 122, 101, 100>>)

Caps == Response(200, "application/xml", CapsXml)

Unsupported == Response(400, "text/html", <<85, 110, 115, 117, 112, 112, 111, 114, 116, 101, 100, 32, 39, 116, 39, 32, 112, 97, 114, 97, 109, 101, 116, 101, 114>>)

\* s.replace("&", "&amp;") and then "<", ">", the double and the single
\* quote: no replacement text holds a character a later one replaces
xml_escape(s) ==
    Flatten([i \in 1..Len(s) |->
        CASE s[i] = 38 -> <<38, 97, 109, 112, 59>>
          [] s[i] = 60 -> <<38, 108, 116, 59>>
          [] s[i] = 62 -> <<38, 103, 116, 59>>
          [] s[i] = 34 -> <<38, 113, 117, 111, 116, 59>>
          [] s[i] = 39 -> <<38, 97, 112, 111, 115, 59>>
          [] OTHER -> <<s[i]>>])

\* s[i:j] for any integers i and j
PySlice(s, i, j) ==
    LET lo == Max(0, Min(Len(s), IF i < 0 THEN i + Len(s) ELSE i))
        hi == Max(0, Min(Len(s), IF j < 0 THEN j + Len(s) ELSE j))
    IN  SubSeq(s, lo + 1, hi)

\* the item a fallback query is answered with, posted at time t
SampleItem(t) ==
    (K_hash :> Str(<<83, 65, 77, 80, 76, 69, 72, 65, 83, 72, 49, 50, 51, 52, 53, 54, 55, 56, 57, 48>>))
    @@ (K_filename :> Str(<<115, 97, 109, 112, 108, 101, 46, 109, 97, 116, 114, 105, 120, 46, 99, 108, 105, 112>>))
    @@ (K_ext :> Str(<<46, 109, 107, 118>>))
    @@ (K_sig :> None)
    @@ (K_size :> Num(700 * 1024 * 1024))
    @@ (K_title :> Str(<<83, 97, 109, 112, 108, 101, 32, 77, 97, 116, 114, 105, 120, 32, 67, 108, 105, 112>>))
    @@ (K_sample :> Bool(TRUE))
    @@ (K_poster :> Str(<<115, 97, 109, 112, 108, 101, 64, 101, 120, 97, 109, 112, 108, 101, 46, 99, 111, 109>>))
    @@ (K_posted :> Num(t))

\* the <item> of one result: its title, its guid (the id of its link and
\* enclosure too) and its size
FeedItem(it) ==
    [title |-> IF Truthy(it[K_title]) THEN xml_escape(it[K_title].s) ELSE <<85, 110, 116, 105, 116, 108, 101, 100>>,
     guid  |-> encode_id(it),
     size  |-> it[K_size]]

\* the RSS response for the page of items
Rss(display_q, page) ==
    [status |-> 200, mimetype |-> "application/rss+xml", body |-> <<>>,
     title |-> xml_escape(<<82, 101, 115, 117, 108, 116, 115, 32, 102, 111, 114, 32>> \o display_q),
     feed |-> [i \in 1..Len(page) |-> FeedItem(page[i])], filename |-> <<>>]

\* SearchPage with the slice one item longer
SearchPageInclusive(a, items) ==
    Rss(IF a.raw_query # <<>> THEN a.raw_query ELSE a.q,
        PySlice(items, a.offset, a.offset + a.limit + 1))

\* items[offset : offset + limit] and the response
SearchPage(a, items) ==
    Rss(IF a.raw_query # <<>> THEN a.raw_query ELSE a.q,
        PySlice(items, a.offset, a.offset + a.limit))

\* the GETs the session issues for one search when the upstream answers
\* the statuses in answers, attempt by attempt: a status of the force list
\* is retried until RetryTotal retries are spent
Attempts(answers) ==
    LET stop == {i \in 1..Len(answers) : answers[i] \notin StatusForcelist}
                    \cup {RetryTotal + 1, Len(answers)}
    IN  SubSeq(answers, 1, CHOOSE i \in stop : \A j \in stop : i <= j)

\* whether c.search raises: the retries are spent (RetryError) or
\* raise_for_status meets a 4xx or 5xx status (HTTPError)
SearchRaises(attempts) == attempts[Len(attempts)] >= 400

SearchCalls(q, attempts) ==
    [i \in 1..Len(attempts) |-> Call("search", attempts[i], q, <<>>, <<>>)]

\* the branch after c.search returned data
SearchFiltered(a, c, made, fm) ==
    IF ~fm.ok THEN Result(InternalServerError, made, c.client, c.last)
    ELSE Result(SearchPage(a, fm.out), made, c.client, c.last)

\* the branch after client() returned
SearchUpstream(a, c, attempts, data) ==
    IF SearchRaises(attempts)
    THEN Result(InternalServerError, c.calls \o SearchCalls(a.q, attempts), c.client, c.last)
    ELSE SearchFiltered(a, c, c.calls \o SearchCalls(a.q, attempts), FilterCall(data, a))

\* the branch after the arguments are parsed
SearchParsed(a, cl, last, t, c, answers, data) ==
    IF ~a.ok THEN Result(InternalServerError, <<>>, cl, last)
    ELSE IF a.fallback_query THEN Result(SearchPage(a, <<SampleItem(t)>>), <<>>, cl, last)
    ELSE IF ~c.ok THEN Result(InternalServerError, c.calls, c.client, c.last)
    ELSE SearchUpstream(a, c, Attempts(answers), data)

\* t in ("search", "movie", "tvsearch")
SearchBranch(args, cl, last, t, logins, answers, data) ==
    SearchParsed(SearchArgs(args), cl, last, t, client(cl, last, t, logins), answers, data)

\* the placeholder manifest of a sample token
SampleNzb ==
    <<60, 63, 120, 109, 108, 32, 118, 101, 114, 115, 105, 111, 110, 61, 34, 49, 46, 48, 34, 32, 101, 110, 99, 111, 100, 105, 110, 103, 61, 34, 85, 84, 70, 45, 56, 34, 63, 62, 60, 110, 122, 98, 32, 120, 109, 108, 110, 115, 61, 34, 104, 116, 116, 112, 58, 47, 47, 119, 119, 119, 46, 110, 101, 119, 122, 98, 105, 110, 46, 99, 111, 109, 47, 68, 84, 68, 47, 50, 48, 48, 51, 47, 110, 122, 98, 34, 62, 60, 102, 105, 108, 101, 32, 115, 117, 98, 106, 101, 99, 116, 61, 34, 83, 97, 109, 112, 108, 101, 32, 77, 97, 116, 114, 105, 120, 32, 67, 108, 105, 112, 34, 32, 100, 97, 116, 101, 61, 34, 48, 34, 32, 112, 111, 115, 116, 101, 114, 61, 34, 115, 97, 109, 112, 108, 101, 64, 101, 120, 97, 109, 112, 108, 101, 46, 99, 111, 109, 34, 62, 60, 103, 114, 111, 117, 112, 115, 62, 60, 103, 114, 111, 117, 112, 62, 97, 108, 116, 46, 98, 105, 110, 97, 114, 105, 101, 115, 46, 115, 97, 109, 112, 108, 101, 60, 47, 103, 114, 111, 117, 112, 62, 60, 47, 103, 114, 111, 117, 112, 115, 62, 60, 115, 101, 103, 109, 101, 110, 116, 115, 62, 60, 115, 101, 103, 109, 101, 110, 116, 32, 98, 121, 116, 101, 115, 61, 34, 49, 48, 50, 52, 34, 32, 110, 117, 109, 98, 101, 114, 61, 34, 49, 34, 62, 115, 97, 109, 112, 108, 101, 60, 47, 115, 101, 103, 109, 101, 110, 116, 62, 60, 47, 115, 101, 103, 109, 101, 110, 116, 115, 62, 60, 47, 102, 105, 108, 101, 62, 60, 47, 110, 122, 98, 62>>

\* Response(content, mimetype="application/x-nzb") with the
\* Content-Disposition file name
Attachment(content, safe_title) ==
    [status |-> 200, mimetype |-> "application/x-nzb", body |-> content,
     title |-> <<>>, feed |-> <<>>, filename |-> safe_title \o <<46, 110, 122, 98>>]

\* to_search_item(d): ok = FALSE on the KeyError of a missing field
to_search_item(d) ==
    IF {K_hash, K_filename, K_ext} \subseteq DOMAIN d
    THEN [ok |-> TRUE,
          v  |-> SearchItem(None, d[K_hash], d[K_filename], d[K_ext], Get(d, K_sig),
                            Str(<<86, 73, 68, 69, 79>>), <<>>)]
    ELSE [ok |-> FALSE, v |-> None]

\* str.isalnum on ASCII and Latin-1
IsAlnum(ch) == IsWord(ch) /\ ch # 95

\* d.get("title") or (d.get("filename", "download") + d.get("ext", ""))
FileTitle(d) ==
    IF Truthy(Get(d, K_title)) THEN d[K_title].s
    ELSE (IF K_filename \in DOMAIN d THEN d[K_filename].s ELSE <<100, 111, 119, 110, 108, 111, 97, 100>>)
         \o (IF K_ext \in DOMAIN d THEN d[K_ext].s ELSE <<>>)

\* t or "download"
OrDownload(t) == IF t # <<>> THEN t ELSE <<100, 111, 119, 110, 108, 111, 97, 100>>

\* the file name: the characters that are alphanumeric or one of " -_.",
\* the first 200 of them, stripped, "download" when nothing is left
SafeTitle(title) ==
    OrDownload(Strip(Slice(SelectSeq(title, LAMBDA ch : IsAlnum(ch) \/ ch \in {32, 45, 95, 46}),
                           0, 200)))

\* the branch after the payload is built: the POST, answered post.status
\* with the bytes post.content, is issued once
GetPosted(d, c, payload, post) ==
    IF ~payload.ok THEN Result(InternalServerError, c.calls, c.client, c.last)
    ELSE IF post.status # 200
    THEN Result(Response(502, "text/html", <<85, 112, 115, 116, 114, 101, 97, 109, 32, 101, 114, 114, 111, 114, 32>> \o IntText(post.status)),
                Append(c.calls, Call("post", post.status, <<>>, payload.data, post.content)),
                c.client, c.last)
    ELSE Result(Attachment(post.content, SafeTitle(FileTitle(d))),
                Append(c.calls, Call("post", post.status, <<>>, payload.data, post.content)),
                c.client, c.last)

\* the branch after client() returned
GetClient(d, item, c, post) ==
    IF ~c.ok THEN Result(InternalServerError, c.calls, c.client, c.last)
    ELSE GetPosted(d, c, build_nzb_payload(<<item>>, Get(d, K_title)), post)

\* GetDecoded with client() called before the sample test
GetDecodedClientFirst(d, cl, last, t, logins, post) ==
    IF Truthy(Get(d, K_sample))
    THEN Result(Attachment(SampleNzb, <<115, 97, 109, 112, 108, 101>>),
                client(cl, last, t, logins).calls, client(cl, last, t, logins).client,
                client(cl, last, t, logins).last)
    ELSE IF ~to_search_item(d).ok THEN Result(InternalServerError, <<>>, cl, last)
    ELSE GetClient(d, to_search_item(d).v, client(cl, last, t, logins), post)

\* the branch after decode_id returned the dict d
GetDecoded(d, cl, last, t, logins, post) ==
    IF Truthy(Get(d, K_sample)) THEN Result(Attachment(SampleNzb, <<115, 97, 109, 112, 108, 101>>), <<>>, cl, last)
    ELSE IF ~to_search_item(d).ok THEN Result(InternalServerError, <<>>, cl, last)
    ELSE GetClient(d, to_search_item(d).v, client(cl, last, t, logins), post)

\* the branch after decode_id: d.get raises on a value that is not a dict
GetToken(dec, cl, last, t, logins, post) ==
    IF ~dec.ok \/ dec.v.t # "dict" THEN Result(InternalServerError, <<>>, cl, last)
    ELSE GetDecoded(dec.v.d, cl, last, t, logins, post)

\* t in ("get", "getnzb")
GetBranch(args, cl, last, t, logins, post) ==
    IF ~Truthy(Get(args, K_id)) THEN Result(Response(400, "text/html", <<77, 105, 115, 115, 105, 110, 103, 32, 105, 100>>), <<>>, cl, last)
    ELSE GetToken(decode_id(args[K_id].s), cl, last, t, logins, post)

----------------------------------------------------------------------------
(* SpecCodec: encode_id then decode_id on a selection record *)

MaxFieldLen == 2

\* "a", the double quote, the backslash and e-acute (two bytes in UTF-8)
CodecChars == {97, 34, 92, 233}

OptionalText(S) == {None} \cup {Str(s) : s \in S}

\* selection records: the five fields, and the sample flag absent, True or
\* False
CodecRecords ==
    LET core == { (K_hash :> h) @@ (K_filename :> f) @@ (K_ext :> e)
                  @@ (K_sig :> g) @@ (K_title :> ti) :
                    h \in OptionalText({<<104>>}),
                    f \in OptionalText(SeqsUpTo({97, 34}, MaxFieldLen)),
                    e \in {Str(<<46, 109, 107, 118>>)},
                    g \in OptionalText({<<115>>}),
                    ti \in OptionalText(SeqsUpTo(CodecChars, MaxFieldLen)) }
    IN  core \cup {Put(r, K_sample, Bool(b)) : r \in core, b \in BOOLEAN}

CodecIdle ==
    /\ cx = <<>>
    /\ cpc = "off"
    /\ ctoken = <<>>
    /\ cout = [ok |-> FALSE, v |-> None]

CodecInit ==
    /\ cx \in CodecRecords
    /\ cpc = "encode"
    /\ ctoken = <<>>
    /\ cout = [ok |-> FALSE, v |-> None]

EncodeId ==
    /\ cpc = "encode"
    /\ ctoken' = encode_id(cx)
    /\ cpc' = "decode"
    /\ UNCHANGED <<cx, cout>>
    /\ UNCHANGED exceptCodec

DecodeId ==
    /\ cpc = "decode"
    /\ cout' = decode_id(ctoken)
    /\ cpc' = "done"
    /\ UNCHANGED <<cx, ctoken>>
    /\ UNCHANGED exceptCodec

CodecNext == EncodeId \/ DecodeId


----------------------------------------------------------------------------
(* SpecDuration: _parse_duration_seconds on one raw duration value *)

MaxDurParts == 4

\* "1", "02", "h", "M", "s", ":", " ", the superscript two, "x", "-"
DurChunks ==
    {<<49>>, <<48, 50>>, <<104>>, <<77>>, <<115>>, <<58>>, <<32>>, <<178>>, <<120>>, <<45>>}

DurTexts == {Flatten(cs) : cs \in SeqsUpTo(DurChunks, MaxDurParts)}

DurRaws == {None} \cup {Num(n) : n \in -1..2} \cup {Str(t) : t \in DurTexts}

DurIdle ==
    /\ draw = None
    /\ dpc = "off"
    /\ dout = DurationReturn(None)

DurInit ==
    /\ draw \in DurRaws
    /\ dpc = "call"
    /\ dout = DurationReturn(None)

ParseDuration ==
    /\ dpc = "call"
    /\ dout' = _parse_duration_seconds(draw)
    /\ dpc' = "done"
    /\ UNCHANGED draw
    /\ UNCHANGED exceptDur

DurNext == ParseDuration

----------------------------------------------------------------------------
(* SpecPayload: build_nzb_payload on a list of selected items *)

MaxItems == 2

\* items with hash "h", a file name of 0 to 2 bytes, ext ".mkv" or ".ts",
\* and no signature, an empty one or "s"
PayItems ==
    {SearchItem(None, Str(<<104>>), Str(f), Str(e), g, Str(<<86, 73, 68, 69, 79>>), <<>>) :
        f \in {<<>>, <<97>>, <<97, 233>>},
        e \in {<<46, 109, 107, 118>>, <<46, 116, 115>>},
        g \in {None, Str(<<>>), Str(<<115>>)}}

PayNames == {None, Str(<<>>), Str(<<110>>)}

PayIdle ==
    /\ pitems = <<>>
    /\ pname = None
    /\ ppc = "off"
    /\ pout = [ok |-> FALSE, data |-> <<>>]

PayInit ==
    /\ pitems \in SeqsUpTo(PayItems, MaxItems)
    /\ pname \in PayNames
    /\ ppc = "call"
    /\ pout = [ok |-> FALSE, data |-> <<>>]

BuildNzbPayload ==
    /\ ppc = "call"
    /\ pout' = build_nzb_payload(pitems, pname)
    /\ ppc' = "done"
    /\ UNCHANGED <<pitems, pname>>
    /\ UNCHANGED exceptPay

PayNext == BuildNzbPayload

----------------------------------------------------------------------------
(* SpecFlag: _is_flagged_item on one upstream record *)

\* the dicts with no entry for k or one entry k -> v, v in V
Optional(k, V) == {<<>>} \cup {(k :> v) : v \in V}

\* map-shaped records with and without the markers and the content type
\* ("VIDEO", "video", "AUDIO", ""), and two array-shaped records
FlagRecords ==
    {Dict(a @@ b @@ c @@ d @@ e) :
        a \in Optional(K_passwd, {Bool(FALSE), Bool(TRUE)}),
        b \in Optional(K_password, {Str(<<120>>)}),
        c \in Optional(K_virus, {Bool(FALSE), Bool(TRUE)}),
        d \in Optional(K_type, {Str(<<86, 73, 68, 69, 79>>), Str(<<118, 105, 100, 101, 111>>), Str(<<65, 85, 68, 73, 79>>), Str(<<>>)}),
        e \in Optional(K_file_type, {Str(<<65, 85, 68, 73, 79>>)})}
    \cup {List(<<>>), List(<<Str(<<104>>)>>)}

\* the allow-listed extensions, some in other cases, some without the dot,
\* and ".exe"
FlagExts ==
    {Str(x) : x \in {<<46, 109, 107, 118>>, <<46, 77, 75, 86>>, <<46, 77, 112, 52>>, <<109, 107, 118>>, <<109, 112, 52>>, <<46, 101, 120, 101>>, <<46, 116, 115>>,
                     <<46, 119, 101, 98, 109>>, <<46, 109, 112, 101, 103>>, <<46, 109, 52, 118>>, <<46, 97, 118, 105>>, <<46, 109, 111, 118>>, <<46, 119, 109, 118>>,
                     <<46, 109, 112, 103>>, <<46, 102, 108, 118>>}}

\* unknown, and the values around 0 and around the minimum
FlagDurations == {None} \cup {Num(n) : n \in {-30, 0, 59, 60, 61}}

FlagIdle ==
    /\ fitem = None
    /\ fext = None
    /\ fdur = None
    /\ fpc = "off"
    /\ fout = FALSE

FlagInit ==
    /\ fitem \in FlagRecords
    /\ fext \in FlagExts
    /\ fdur \in FlagDurations
    /\ fpc = "call"
    /\ fout = FALSE

IsFlaggedItem ==
    /\ fpc = "call"
    /\ fout' = _is_flagged_item(fitem, fext, fdur)
    /\ fpc' = "done"
    /\ UNCHANGED <<fitem, fext, fdur>>
    /\ UNCHANGED exceptFlag

FlagNext == IsFlaggedItem

----------------------------------------------------------------------------
(* SpecStrict: _matches_strict on a title, the phrase being the sanitized  *)
(* raw query as api passes it                                              *)

MaxTitleWords == 3

MaxPhraseWords == 2

\* "Bl", "ru", "20", "&"
StrictWords == {<<66, 108>>, <<114, 117>>, <<50, 48>>, <<38>>}

\* titles of up to MaxTitleWords words joined by spaces or by dots
StrictTitles ==
    {Join(ws, sep) : ws \in SeqsUpTo(StrictWords, MaxTitleWords), sep \in {<<32>>, <<46>>}}

\* raw queries of up to MaxPhraseWords words
StrictQueries == {Join(ws, <<32>>) : ws \in SeqsUpTo(StrictWords, MaxPhraseWords)}

StrictIdle ==
    /\ stitle = <<>>
    /\ squery = <<>>
    /\ spc = "off"
    /\ sout = FALSE

StrictInit ==
    /\ stitle \in StrictTitles
    /\ squery \in StrictQueries
    /\ spc = "call"
    /\ sout = FALSE

MatchesStrict ==
    /\ spc = "call"
    /\ sout' = _matches_strict(stitle, Str(_sanitize_phrase(squery)))
    /\ spc' = "done"
    /\ UNCHANGED <<stitle, squery>>
    /\ UNCHANGED exceptStrict

StrictNext == MatchesStrict

----------------------------------------------------------------------------
(* SpecSearch: filter_and_map as the search branch of api calls it, on a   *)
(* request that is not answered with the sample item                       *)

MaxQueryWords == 2

MaxRecords == 2

\* a map-shaped record of 200 MiB with hash "h" and extension ".mkv", its
\* title in the field k
Record(k, title) ==
    Dict((K_hash :> Str(<<104>>)) @@ (k :> Str(title)) @@ (K_ext :> Str(<<46, 109, 107, 118>>))
         @@ (K_size :> Num(200 * 1024 * 1024)))

\* an array-shaped record: hash, subject, file name and extension at
\* positions 0, 6, 10 and 11
ArrayRecord(title) ==
    List(<<Str(<<104>>), None, None, None, None, None, Str(title), None, None, None,
           Str(<<102>>), Str(<<46, 109, 107, 118>>)>>)

\* search, movie and tvsearch requests for "show" or "show 1080p", with and
\* without season ("0", "2"), ep ("0", "1") and year ("2019")
MetaRequests ==
    {(K_t :> Str(t)) @@ (K_q :> Str(q)) @@ a @@ b @@ c :
        t \in {<<115, 101, 97, 114, 99, 104>>, <<109, 111, 118, 105, 101>>, <<116, 118, 115, 101, 97, 114, 99, 104>>},
        q \in {<<115, 104, 111, 119>>, <<115, 104, 111, 119, 32, 49, 48, 56, 48, 112>>},
        a \in Optional(K_season, {Str(<<48>>), Str(<<50>>)}),
        b \in Optional(K_ep, {Str(<<48>>), Str(<<49>>)}),
        c \in Optional(K_year, {Str(<<50, 48, 49, 57>>)})}

\* one record per upstream response
MetaData ==
    {(K_data :> List(<<Record(K_subject, title)>>)) :
        title \in {<<83, 104, 111, 119, 46, 83, 48, 50, 69, 48, 49, 46, 55, 50, 48, 112>>, <<83, 104, 111, 119, 46, 83, 48, 48, 69, 48, 49, 46, 49, 48, 56, 48, 112>>, <<83, 104, 111, 119, 46, 50, 48, 49, 57, 46, 49, 48, 56, 48, 112>>,
                   <<83, 104, 111, 119, 46, 83, 48, 50, 69, 48, 48>>, <<83, 104, 111, 119>>, <<83, 104, 111, 119, 46, 50, 120, 48, 49, 46, 83, 48, 50, 69, 48, 53, 46, 50, 48, 49, 57, 46, 50, 48, 50, 48>>}}

\* "show", "the", "x", "Big"
QueryWords == {<<115, 104, 111, 119>>, <<116, 104, 101>>, <<120>>, <<66, 105, 103>>}

\* plain searches for one to MaxQueryWords words
TokenRequests ==
    {(K_t :> Str(<<115, 101, 97, 114, 99, 104>>)) @@ (K_q :> Str(Join(ws, <<32>>))) :
        ws \in SeqsUpTo(QueryWords, MaxQueryWords) \ {<<>>}}

TokenRecords ==
    {Record(K_subject, <<83, 104, 111, 119>>), Record(K_subject, <<84, 104, 101, 46, 66, 105, 103, 46, 83, 104, 111, 119>>),
     Record(K_subject, <<98, 105, 103, 32, 120>>),
     Record(K_subject, <<77, 105, 115, 99, 32, 40, 116, 104, 101, 41>>), Record(K_fn, <<66, 105, 103, 32, 38, 32, 83, 104, 111, 119, 32, 45, 32, 120>>),
     ArrayRecord(<<66, 105, 103, 32, 83, 104, 111, 119>>)}

\* upstream responses of up to MaxRecords records
TokenData == {(K_data :> List(rs)) : rs \in SeqsUpTo(TokenRecords, MaxRecords)}

SearchCases ==
    {[req |-> r, data |-> d] : r \in MetaRequests, d \in MetaData}
    \cup {[req |-> r, data |-> d] : r \in TokenRequests, d \in TokenData}

SearchIdle ==
    /\ qreq = <<>>
    /\ qdata = <<>>
    /\ qargs = <<>>
    /\ qpc = "off"
    /\ qout = [ok |-> TRUE, out |-> <<>>]

SearchInit ==
    /\ \E c \in SearchCases : qreq = c.req /\ qdata = c.data
    /\ qargs = <<>>
    /\ qpc = "call"
    /\ qout = [ok |-> TRUE, out |-> <<>>]

\* the handler derives the arguments and calls filter_and_map
FilterAndMap ==
    /\ qpc = "call"
    /\ qargs' = SearchArgs(qreq)
    /\ ~qargs'.fallback_query
    /\ qout' = FilterCall(qdata, qargs')
    /\ qpc' = "done"
    /\ UNCHANGED <<qreq, qdata>>
    /\ UNCHANGED exceptSearch

SearchNext == FilterAndMap

----------------------------------------------------------------------------
(* SpecApi: requests served one after another by api, the upstream         *)
(* answering as it likes, the clock advancing between requests             *)

\* time.time() when the server starts, and the seconds between two readings
\* of the clock
StartTime == 1000

TickSeconds == 301

MaxTicks == 2

\* the EasynewsClient instances created in one run
MaxClients == 2

MaxApiRecords == 2

MaxChunks == 2

\* the token of a JSON text
TokenOf(text) == RStripPad(B64Encode(Utf8Encode(text)))

\* selection records as the search branch encodes them
ApiSelections ==
    {(K_hash :> Str(<<104>>)) @@ (K_filename :> Str(<<102>>)) @@ (K_ext :> Str(<<46, 109, 107, 118>>))
        @@ (K_sig :> sig) @@ (K_title :> title) :
        sig \in {None, Str(<<115>>)}, title \in {None, Str(<<97, 47, 98>>), Str(<<47>>)}}

\* a token without its last character
CutShort(token) == SubSeq(token, 1, Len(token) - 1)

\* ids of retrieval requests: tokens of selection records and of the sample
\* item, a token cut short, text that is not base64 of UTF-8, and tokens of
\* JSON that is not a selection record
ApiIds ==
    {encode_id(x) : x \in ApiSelections}
    \cup {encode_id(SampleItem(StartTime)), CutShort(encode_id(SampleItem(StartTime)))}
    \cup {<<>>, <<97, 98, 99>>, <<97>>}
    \cup {TokenOf(j) : j \in {<<120>>, <<53>>, <<91, 93>>, <<110, 117, 108, 108>>, <<123, 125>>,
                              <<123, 34, 116, 105, 116, 108, 101, 34, 58, 32, 34, 120, 34, 125>>, <<123, 34, 104, 97, 115, 104, 34, 58, 32, 34, 104, 34, 125>>,
                              <<123, 34, 115, 97, 109, 112, 108, 101, 34, 58, 32, 116, 114, 117, 101, 125>>,
                              <<123, 34, 104, 97, 115, 104, 34, 58, 32, 34, 104, 34, 44, 32, 34, 102, 105, 108, 101, 110, 97, 109, 101, 34, 58, 32, 110, 117, 108, 108, 44, 32, 34, 101, 120, 116, 34, 58, 32, 34, 46, 109, 107, 118, 34, 125>>}}

\* upstream records that pass every filter for the query "show"
ApiRecords == {Record(K_subject, <<83, 104, 111, 119, 32, 60, 50, 62>>), Record(K_fn, <<83, 104, 111, 119, 32, 83, 48, 50, 69, 48, 49>>)}

ApiData == {(K_data :> List(rs)) : rs \in SeqsUpTo(ApiRecords, MaxApiRecords)}

\* the arguments of the requests, the key left out
ApiArgs ==
    {<<>>, (K_t :> Str(<<99, 97, 112, 115>>)), (K_t :> Str(<<100, 101, 116, 97, 105, 108, 115>>)), (K_t :> Str(<<103, 101, 116, 110, 122, 98>>)),
     (K_t :> Str(<<103, 101, 116, 110, 122, 98>>)) @@ (K_id :> Str(<<97, 98, 99>>))}
    \cup {(K_t :> Str(<<103, 101, 116>>)) @@ i : i \in Optional(K_id, {Str(x) : x \in ApiIds})}
    \cup {(K_t :> Str(<<115, 101, 97, 114, 99, 104>>)) @@ (K_q :> Str(<<115, 104, 111, 119>>)) @@ l @@ o :
            l \in Optional(K_limit, {Str(<<49>>), Str(<<120>>)}),
            o \in Optional(K_offset, {Str(<<49>>), Str(<<45, 49>>)})}
    \cup {(K_t :> Str(<<115, 101, 97, 114, 99, 104>>)) @@ q : q \in Optional(K_q, {Str(<<116, 101, 115, 116>>)})}
    \cup {(K_t :> Str(<<109, 111, 118, 105, 101>>)) @@ (K_q :> Str(<<115, 104, 111, 119>>)),
          (K_t :> Str(<<116, 118, 115, 101, 97, 114, 99, 104>>)) @@ (K_q :> Str(<<115, 104, 111, 119>>)) @@ (K_season :> Str(<<50>>))}

\* the requests: the key as an argument, as a header, wrong, and missing
ApiRequests ==
    {[args |-> a @@ (K_apikey :> Str(API_KEY)), header |-> None] : a \in ApiArgs}
    \cup {[args |-> a, header |-> h] :
            a \in {<<>>, (K_t :> Str(<<103, 101, 116>>)), (K_t :> Str(<<115, 101, 97, 114, 99, 104>>))},
            h \in {None, Str(API_KEY), Str(<<107, 101, 121>>)}}

\* manifest bytes: up to MaxChunks of "<nzb>" and "date=\"\""
PostContents ==
    {Flatten(cs) : cs \in SeqsUpTo({<<60, 110, 122, 98, 62>>, <<100, 97, 116, 101, 61, 34, 34>>}, MaxChunks)}

\* what the upstream answers while a search is served: the statuses of the
\* first and the second login(), the statuses of the search GET attempt by
\* attempt, and the JSON of a successful one
SearchUpstreams ==
    {[logins |-> <<200, 200>>, answers |-> <<200>>, data |-> d] : d \in ApiData}
    \cup {[logins |-> <<200, 200>>, answers |-> a, data |-> <<>>] :
             a \in {<<404>>, <<503, 200>>, [i \in 1..(RetryTotal + 1) |-> 503]}}
    \cup {[logins |-> l, answers |-> <<200>>, data |-> <<>>] :
             l \in {<<401, 200>>, <<401, 401>>}}

\* what it answers while a retrieval is served: the logins, and the status
\* and the bytes of the manifest POST
GetUpstreams ==
    {[logins |-> <<200, 200>>, post |-> [status |-> 200, content |-> c]] : c \in PostContents}
    \cup {[logins |-> <<200, 200>>, post |-> [status |-> s, content |-> <<110, 111>>]] :
             s \in {404, 500}}
    \cup {[logins |-> l, post |-> [status |-> 200, content |-> <<60, 110, 122, 98, 62>>]] :
             l \in {<<401, 200>>, <<401, 401>>}}

NoRequest == [args |-> <<>>, header |-> None]

ApiIdle ==
    /\ request = NoRequest
    /\ response = Response(0, "", <<>>)
    /\ calls = <<>>
    /\ _CLIENT = None
    /\ _CLIENT_LAST_LOGIN = 0
    /\ now = 0

\* the module globals as server.py sets them, no request served yet
ApiInit ==
    /\ request = NoRequest
    /\ response = Response(0, "", <<>>)
    /\ calls = <<>>
    /\ _CLIENT = None
    /\ _CLIENT_LAST_LOGIN = 0
    /\ now = StartTime

\* the handler returns r for the request req; a request is served when the
\* response to the one before has gone out
Serve(req, r) ==
    /\ response.status = 0
    /\ IF r.client = None THEN TRUE ELSE r.client.n <= MaxClients
    /\ request' = req
    /\ response' = r.response
    /\ calls' = r.calls
    /\ _CLIENT' = r.client
    /\ _CLIENT_LAST_LOGIN' = r.last
    /\ UNCHANGED now
    /\ UNCHANGED exceptApi

ApiUnauthorized ==
    \E req \in ApiRequests :
        /\ ~require_apikey(req)
        /\ Serve(req, Result(Unauthorized, <<>>, _CLIENT, _CLIENT_LAST_LOGIN))

ApiCaps ==
    \E req \in ApiRequests :
        /\ require_apikey(req)
        /\ ArgT(req) = <<99, 97, 112, 115>>
        /\ Serve(req, Result(Caps, <<>>, _CLIENT, _CLIENT_LAST_LOGIN))

ApiSearch ==
    \E req \in ApiRequests, up \in SearchUpstreams :
        /\ require_apikey(req)
        /\ ArgT(req) \in {<<115, 101, 97, 114, 99, 104>>, <<109, 111, 118, 105, 101>>, <<116, 118, 115, 101, 97, 114, 99, 104>>}
        /\ Serve(req, SearchBranch(req.args, _CLIENT, _CLIENT_LAST_LOGIN, now, up.logins,
                                   up.answers, up.data))

ApiGet ==
    \E req \in ApiRequests, up \in GetUpstreams :
        /\ require_apikey(req)
        /\ ArgT(req) \in {<<103, 101, 116>>, <<103, 101, 116, 110, 122, 98>>}
        /\ Serve(req, GetBranch(req.args, _CLIENT, _CLIENT_LAST_LOGIN, now, up.logins,
                                up.post))

ApiUnsupported ==
    \E req \in ApiRequests :
        /\ require_apikey(req)
        /\ ArgT(req) \notin {<<99, 97, 112, 115>>, <<115, 101, 97, 114, 99, 104>>, <<109, 111, 118, 105, 101>>, <<116, 118, 115, 101, 97, 114, 99, 104>>, <<103, 101, 116>>, <<103, 101, 116, 110, 122, 98>>}
        /\ Serve(req, Result(Unsupported, <<>>, _CLIENT, _CLIENT_LAST_LOGIN))

\* the response has gone out
Sent ==
    /\ response.status # 0
    /\ request' = NoRequest
    /\ response' = Response(0, "", <<>>)
    /\ calls' = <<>>
    /\ UNCHANGED <<_CLIENT, _CLIENT_LAST_LOGIN, now>>
    /\ UNCHANGED exceptApi

\* time passes between two requests
Tick ==
    /\ response.status = 0
    /\ now < StartTime + MaxTicks * TickSeconds
    /\ now' = now + TickSeconds
    /\ UNCHANGED <<request, response, calls, _CLIENT, _CLIENT_LAST_LOGIN>>
    /\ UNCHANGED exceptApi

ApiNext ==
    \/ ApiUnauthorized
    \/ ApiCaps
    \/ ApiSearch
    \/ ApiGet
    \/ ApiUnsupported
    \/ Sent
    \/ Tick

----------------------------------------------------------------------------
(* SpecPage: one search request served by api with a logged-in client, the *)
(* upstream answering the search with a JSON of a few records              *)

MaxPageRecords == 3

MiB == 1024 * 1024

\* a map-shaped record of the given size that passes the flag filter
SizedRecord(title, size) ==
    Dict((K_hash :> Str(<<104>>)) @@ (K_subject :> Str(title)) @@ (K_ext :> Str(<<46, 109, 107, 118>>))
         @@ (K_size :> Num(size)))

\* records of 200 MiB and 150 MiB and an array-shaped one, all with titles
\* that hold the query "show"
PageRecords ==
    {SizedRecord(<<83, 104, 111, 119, 32, 97>>, 200 * MiB), SizedRecord(<<83, 104, 111, 119, 32, 98>>, 150 * MiB),
     ArrayRecord(<<83, 104, 111, 119, 32, 99>>)}

PageData == {(K_data :> List(rs)) : rs \in SeqsUpTo(PageRecords, MaxPageRecords)}

\* search requests for "show": limit absent, 0, 1, 2 or no number, offset
\* absent, 1, 2 or -1, and minsize absent, empty, no number, 0, negative,
\* below and above the floor
PageRequests ==
    {(K_t :> Str(<<115, 101, 97, 114, 99, 104>>)) @@ (K_q :> Str(<<115, 104, 111, 119>>)) @@ l @@ o :
        l \in Optional(K_limit, {Str(<<48>>), Str(<<49>>), Str(<<50>>)}),
        o \in Optional(K_offset, {Str(<<49>>), Str(<<50>>), Str(<<45, 49>>)})}
    \cup {(K_t :> Str(<<115, 101, 97, 114, 99, 104>>)) @@ (K_q :> Str(<<115, 104, 111, 119>>)) @@ (K_limit :> Str(<<120>>))}
    \cup {(K_t :> Str(<<115, 101, 97, 114, 99, 104>>)) @@ (K_q :> Str(<<115, 104, 111, 119>>)) @@ (K_minsize :> Str(m)) :
            m \in {<<>>, <<97, 98, 99>>, <<48>>, <<45, 53>>, <<53, 48>>, <<50, 48, 48>>, <<49, 46, 53>>}}

PageIdle ==
    /\ greq = <<>>
    /\ gdata = <<>>
    /\ gargs = <<>>
    /\ gpc = "off"
    /\ gout = Response(0, "", <<>>)

PageInit ==
    /\ greq \in PageRequests
    /\ gdata \in PageData
    /\ gargs = <<>>
    /\ gpc = "call"
    /\ gout = Response(0, "", <<>>)

\* api serves the request: the client is cached and logged in, the search
\* GET is answered 200 with gdata
ResultsPage ==
    /\ gpc = "call"
    /\ gargs' = SearchArgs(greq)
    /\ gout' = SearchBranch(greq, Num(1), StartTime, StartTime, <<200, 200>>, <<200>>,
                            gdata).response
    /\ gpc' = "done"
    /\ UNCHANGED <<greq, gdata>>
    /\ UNCHANGED exceptPage

PageNext == ResultsPage


----------------------------------------------------------------------------
(* SpecFilter: filter_and_map called with an upstream response of one      *)
(* record and a min_bytes argument, no query tokens, no query metadata and *)
(* no strict phrase                                                        *)

\* min_bytes arguments: negative, zero, one and the floor of the search
\* branch
MinBytesArgs == {-2, 0, 1, 100 * MiB}

\* the sizes of upstream records: integers around every min_bytes argument,
\* a boolean, texts (of a number, of a negative number, of no number), null
SizeValues ==
    {Num(m + d) : m \in MinBytesArgs, d \in {-1, 0, 1}}
    \cup {Bool(TRUE), Str(<<49>>), Str(<<45, 51>>), Str(<<120>>), None}

\* a map-shaped record that passes every filter but the size threshold
FilterBase ==
    (K_hash :> Str(<<104>>)) @@ (K_subject :> Str(<<83, 104, 111, 119>>)) @@ (K_ext :> Str(<<46, 109, 107, 118>>))
    @@ (K_size :> Num(200 * MiB))

\* FilterBase without the keys K
BaseWithout(K) == [k \in DOMAIN FilterBase \ K |-> FilterBase[k]]

\* records with every size value and without a size, and an array-shaped
\* record
SizeRecords ==
    {Dict((K_size :> s) @@ BaseWithout({K_size})) : s \in SizeValues}
    \cup {Dict(BaseWithout({K_size})), ArrayRecord(<<83, 104, 111, 119>>)}

\* the key k absent, empty, or with the text v
KeyChoices(k, v) == {<<>>, (k :> Str(<<>>)), (k :> Str(v))}

\* records in which the keys of one canonical field are absent, empty or
\* present, each key with a value of its own
KeyRecords ==
    {Dict(a @@ b @@ c @@ BaseWithout({K_hash})) :
        a \in KeyChoices(K_hash, <<104, 49>>), b \in KeyChoices(K_0, <<104, 48>>), c \in KeyChoices(K_id, <<104, 105>>)}
    \cup {Dict(a @@ b @@ BaseWithout({K_subject})) :
        a \in KeyChoices(K_subject, <<83, 104, 111, 119, 32, 115>>), b \in KeyChoices(K_6, <<83, 104, 111, 119, 32, 54>>)}
    \cup {Dict(a @@ b @@ FilterBase) :
        a \in KeyChoices(K_filename, <<102>>), b \in KeyChoices(K_10, <<102, 49, 48>>)}
    \cup {Dict(a @@ b @@ c @@ BaseWithout({K_ext})) :
        a \in KeyChoices(K_ext, <<46, 109, 107, 118>>), b \in KeyChoices(K_11, <<46, 109, 112, 52>>),
        c \in KeyChoices(K_extension, <<46, 97, 118, 105>>)}
    \cup {Dict(a @@ b @@ FilterBase) :
        a \in KeyChoices(K_poster, <<112>>), b \in KeyChoices(K_7, <<112, 55>>)}
    \cup {Dict(a @@ b @@ c @@ FilterBase) :
        a \in KeyChoices(K_dtime, <<100, 49>>), b \in KeyChoices(K_date, <<100, 50>>), c \in KeyChoices(K_12, <<100, 51>>)}
    \cup {Dict(a @@ b @@ c @@ FilterBase) :
        a \in KeyChoices(K_duration, <<49, 48, 58, 48, 48>>), b \in KeyChoices(K_len, <<57, 48>>),
        c \in KeyChoices(K_14, <<50, 58, 48, 48>>)}

\* the calls: every size record with every min_bytes argument, every key
\* record with the floor of the search branch
FilterCases ==
    {[data |-> (K_data :> List(<<r>>)), min |-> m] : r \in SizeRecords, m \in MinBytesArgs}
    \cup {[data |-> (K_data :> List(<<r>>)), min |-> 100 * MiB] : r \in KeyRecords}

FilterIdle ==
    /\ mdata = <<>>
    /\ mmin = 0
    /\ mpc = "off"
    /\ mfields = <<>>
    /\ mout = [ok |-> TRUE, out |-> <<>>]

FilterInit ==
    /\ \E c \in FilterCases : mdata = c.data /\ mmin = c.min
    /\ mpc = "call"
    /\ mfields = <<>>
    /\ mout = [ok |-> TRUE, out |-> <<>>]

\* filter_and_map(mdata, mmin): the fields read off each record, and the
\* list returned
FilterRecords ==
    /\ mpc = "call"
    /\ mfields' = [i \in 1..Len(mdata[K_data].a) |-> RecordFields(mdata[K_data].a[i])]
    /\ mout' = filter_and_map(mdata, mmin, <<>>, <<>>, None, FALSE)
    /\ mpc' = "done"
    /\ UNCHANGED <<mdata, mmin>>
    /\ UNCHANGED exceptFilter

FilterNext == FilterRecords


----------------------------------------------------------------------------
(* SpecMarkers: _extract_release_markers called with a title and a quality *)
(* hint                                                                    *)

MaxMarkerParts == 3

\* the parts of the titles: season and episode in both notations, with one
\* and two digits and with zeros, years of both centuries, a word, a number
\* that is no year
MarkerParts ==
    {<<83, 48, 49, 69, 48, 50>>, <<115, 51, 101, 52>>, <<83, 48, 48, 69, 48, 48>>, <<50, 120, 48, 53>>, <<49, 48, 88, 50>>, <<49, 57, 57, 57>>, <<50, 48, 49, 57>>, <<83, 104, 111, 119>>, <<49, 48, 56, 48>>}

\* the titles: up to MaxMarkerParts parts, separated by dots or not at all
MarkerTitles ==
    {Join(ps, sep) : ps \in SeqsUpTo(MarkerParts, MaxMarkerParts), sep \in {<<>>, <<46>>}}

MarkerHints == {None, Str(<<55, 50, 48, 112>>)}

MarkIdle ==
    /\ rtitle = <<>>
    /\ rhint = None
    /\ rpc = "off"
    /\ rout = <<>>

MarkInit ==
    /\ rtitle \in MarkerTitles
    /\ rhint \in MarkerHints
    /\ rpc = "call"
    /\ rout = <<>>

ExtractReleaseMarkers ==
    /\ rpc = "call"
    /\ rout' = _extract_release_markers(rtitle, rhint)
    /\ rpc' = "done"
    /\ UNCHANGED <<rtitle, rhint>>
    /\ UNCHANGED exceptMark

MarkNext == ExtractReleaseMarkers


----------------------------------------------------------------------------
(* SpecCache: request threads calling client() at the same time, one step  *)
(* of a thread per statement of client(); login() takes time and can       *)
(* raise, and the clock advances at any moment                             *)

MaxThreads == 2

Threads == 1..MaxThreads

\* the seconds between two readings of the clock, and how often it
\* advances: 300, 600 and 900 seconds after the start
CacheTickSeconds == 300

MaxCacheTicks == 3

\* the login() calls that raise in one run
MaxLoginFailures == 2

CacheIdle ==
    /\ lock = 0
    /\ tpc = [t \in Threads |-> "off"]
    /\ tnow = [t \in Threads |-> 0]
    /\ created = 0
    /\ failures = 0

\* no thread in client(), the lock free
CacheInit ==
    /\ lock = 0
    /\ tpc = [t \in Threads |-> "idle"]
    /\ tnow = [t \in Threads |-> 0]
    /\ created = 0
    /\ failures = 0

\* what a step of client() leaves alone
CacheFrame ==
    /\ UNCHANGED <<request, response, calls>>
    /\ UNCHANGED exceptCache

\* a request handler calls client(): EZ_USER and EZ_PASS are set, the
\* thread arrives at "with _CLIENT_LOCK"
ClientCall(t) ==
    /\ tpc[t] = "idle"
    /\ tpc' = [tpc EXCEPT ![t] = "acquire"]
    /\ UNCHANGED <<lock, tnow, created, failures, _CLIENT, _CLIENT_LAST_LOGIN, now>>
    /\ CacheFrame

\* ClientAcquire without the wait for the lock
ClientAcquireUnlocked(t) ==
    /\ tpc[t] = "acquire"
    /\ lock' = t
    /\ tpc' = [tpc EXCEPT ![t] = "now"]
    /\ UNCHANGED <<tnow, created, failures, _CLIENT, _CLIENT_LAST_LOGIN, now>>
    /\ CacheFrame

\* with _CLIENT_LOCK: the thread enters when the lock is free
ClientAcquire(t) ==
    /\ tpc[t] = "acquire"
    /\ lock = 0
    /\ lock' = t
    /\ tpc' = [tpc EXCEPT ![t] = "now"]
    /\ UNCHANGED <<tnow, created, failures, _CLIENT, _CLIENT_LAST_LOGIN, now>>
    /\ CacheFrame

\* now = time.time(), and the test of the two branches
ClientNow(t) ==
    /\ tpc[t] = "now"
    /\ tnow' = [tnow EXCEPT ![t] = now]
    /\ tpc' = [tpc EXCEPT ![t] =
                 IF _CLIENT = None THEN "create"
                 ELSE IF now - _CLIENT_LAST_LOGIN > _CLIENT_LOGIN_TTL THEN "relogin"
                 ELSE "return"]
    /\ UNCHANGED <<lock, created, failures, _CLIENT, _CLIENT_LAST_LOGIN, now>>
    /\ CacheFrame

\* _CLIENT = EasynewsClient(EZ_USER, EZ_PASS), and _CLIENT.login() begins
ClientCreate(t) ==
    /\ tpc[t] = "create"
    /\ _CLIENT' = Num(created + 1)
    /\ created' = created + 1
    /\ tpc' = [tpc EXCEPT ![t] = "login"]
    /\ UNCHANGED <<lock, tnow, failures, _CLIENT_LAST_LOGIN, now>>
    /\ CacheFrame

\* the first login() returns: _CLIENT_LAST_LOGIN = now
ClientLogin(t) ==
    /\ tpc[t] = "login"
    /\ _CLIENT_LAST_LOGIN' = tnow[t]
    /\ tpc' = [tpc EXCEPT ![t] = "return"]
    /\ UNCHANGED <<lock, tnow, created, failures, _CLIENT, now>>
    /\ CacheFrame

\* the first login() raises
ClientLoginRaises(t) ==
    /\ tpc[t] = "login"
    /\ failures < MaxLoginFailures
    /\ failures' = failures + 1
    /\ tpc' = [tpc EXCEPT ![t] = "raise"]
    /\ UNCHANGED <<lock, tnow, created, _CLIENT, _CLIENT_LAST_LOGIN, now>>
    /\ CacheFrame

\* the login() of the cached client returns
ClientRelogin(t) ==
    /\ tpc[t] = "relogin"
    /\ tpc' = [tpc EXCEPT ![t] = "stamp"]
    /\ UNCHANGED <<lock, tnow, created, failures, _CLIENT, _CLIENT_LAST_LOGIN, now>>
    /\ CacheFrame

\* it raises EasynewsError: a new client is made, and its login() begins
ClientReloginRaises(t) ==
    /\ tpc[t] = "relogin"
    /\ failures < MaxLoginFailures
    /\ failures' = failures + 1
    /\ _CLIENT' = Num(created + 1)
    /\ created' = created + 1
    /\ tpc' = [tpc EXCEPT ![t] = "login_again"]
    /\ UNCHANGED <<lock, tnow, _CLIENT_LAST_LOGIN, now>>
    /\ CacheFrame

\* it raises something else (a connection error of the session), which
\* the except clause does not catch
ClientReloginBreaks(t) ==
    /\ tpc[t] = "relogin"
    /\ failures < MaxLoginFailures
    /\ failures' = failures + 1
    /\ tpc' = [tpc EXCEPT ![t] = "raise"]
    /\ UNCHANGED <<lock, tnow, created, _CLIENT, _CLIENT_LAST_LOGIN, now>>
    /\ CacheFrame

\* the login() of the new client returns
ClientLoginAgain(t) ==
    /\ tpc[t] = "login_again"
    /\ tpc' = [tpc EXCEPT ![t] = "stamp"]
    /\ UNCHANGED <<lock, tnow, created, failures, _CLIENT, _CLIENT_LAST_LOGIN, now>>
    /\ CacheFrame

\* the login() of the new client raises
ClientLoginAgainRaises(t) ==
    /\ tpc[t] = "login_again"
    /\ failures < MaxLoginFailures
    /\ failures' = failures + 1
    /\ tpc' = [tpc EXCEPT ![t] = "raise"]
    /\ UNCHANGED <<lock, tnow, created, _CLIENT, _CLIENT_LAST_LOGIN, now>>
    /\ CacheFrame

\* _CLIENT_LAST_LOGIN = time.time()
ClientStamp(t) ==
    /\ tpc[t] = "stamp"
    /\ _CLIENT_LAST_LOGIN' = now
    /\ tpc' = [tpc EXCEPT ![t] = "return"]
    /\ UNCHANGED <<lock, tnow, created, failures, _CLIENT, now>>
    /\ CacheFrame

\* return _CLIENT: the with block is left, the lock released
ClientReturn(t) ==
    /\ tpc[t] = "return"
    /\ lock' = 0
    /\ tpc' = [tpc EXCEPT ![t] = "idle"]
    /\ tnow' = [tnow EXCEPT ![t] = 0]
    /\ UNCHANGED <<created, failures, _CLIENT, _CLIENT_LAST_LOGIN, now>>
    /\ CacheFrame

\* the exception leaves the with block, the lock released
ClientRaise(t) ==
    /\ tpc[t] = "raise"
    /\ lock' = 0
    /\ tpc' = [tpc EXCEPT ![t] = "idle"]
    /\ tnow' = [tnow EXCEPT ![t] = 0]
    /\ UNCHANGED <<created, failures, _CLIENT, _CLIENT_LAST_LOGIN, now>>
    /\ CacheFrame

\* time passes
CacheTick ==
    /\ now < StartTime + MaxCacheTicks * CacheTickSeconds
    /\ now' = now + CacheTickSeconds
    /\ UNCHANGED <<lock, tpc, tnow, created, failures, _CLIENT, _CLIENT_LAST_LOGIN>>
    /\ CacheFrame

CacheNext ==
    \/ \E t \in Threads : ClientCall(t)
    \/ \E t \in Threads : ClientAcquire(t)
    \/ \E t \in Threads : ClientNow(t)
    \/ \E t \in Threads : ClientCreate(t)
    \/ \E t \in Threads : ClientLogin(t)
    \/ \E t \in Threads : ClientLoginRaises(t)
    \/ \E t \in Threads : ClientRelogin(t)
    \/ \E t \in Threads : ClientReloginRaises(t)
    \/ \E t \in Threads : ClientReloginBreaks(t)
    \/ \E t \in Threads : ClientLoginAgain(t)
    \/ \E t \in Threads : ClientLoginAgainRaises(t)
    \/ \E t \in Threads : ClientStamp(t)
    \/ \E t \in Threads : ClientReturn(t)
    \/ \E t \in Threads : ClientRaise(t)
    \/ CacheTick


----------------------------------------------------------------------------
(* The specifications *)

InitCodec ==
    CodecInit /\ DurIdle /\ PayIdle /\ FlagIdle /\ StrictIdle /\ SearchIdle /\ ApiIdle /\ PageIdle /\ FilterIdle /\ MarkIdle /\ CacheIdle

SpecCodec == InitCodec /\ [][CodecNext]_vars

InitDuration ==
    DurInit /\ CodecIdle /\ PayIdle /\ FlagIdle /\ StrictIdle /\ SearchIdle /\ ApiIdle /\ PageIdle /\ FilterIdle /\ MarkIdle /\ CacheIdle

SpecDuration == InitDuration /\ [][DurNext]_vars

InitPayload ==
    PayInit /\ CodecIdle /\ DurIdle /\ FlagIdle /\ StrictIdle /\ SearchIdle /\ ApiIdle /\ PageIdle /\ FilterIdle /\ MarkIdle /\ CacheIdle

SpecPayload == InitPayload /\ [][PayNext]_vars

InitFlag ==
    FlagInit /\ CodecIdle /\ DurIdle /\ PayIdle /\ StrictIdle /\ SearchIdle /\ ApiIdle /\ PageIdle /\ FilterIdle /\ MarkIdle /\ CacheIdle

SpecFlag == InitFlag /\ [][FlagNext]_vars

InitStrict ==
    StrictInit /\ CodecIdle /\ DurIdle /\ PayIdle /\ FlagIdle /\ SearchIdle /\ ApiIdle /\ PageIdle /\ FilterIdle /\ MarkIdle /\ CacheIdle

SpecStrict == InitStrict /\ [][StrictNext]_vars

InitSearch ==
    SearchInit /\ CodecIdle /\ DurIdle /\ PayIdle /\ FlagIdle /\ StrictIdle /\ ApiIdle /\ PageIdle /\ FilterIdle /\ MarkIdle /\ CacheIdle

SpecSearch == InitSearch /\ [][SearchNext]_vars

InitApi ==
    ApiInit /\ CodecIdle /\ DurIdle /\ PayIdle /\ FlagIdle /\ StrictIdle /\ SearchIdle /\ PageIdle /\ FilterIdle /\ MarkIdle /\ CacheIdle

SpecApi == InitApi /\ [][ApiNext]_vars

InitPage ==
    PageInit /\ CodecIdle /\ DurIdle /\ PayIdle /\ FlagIdle /\ StrictIdle /\ SearchIdle /\ ApiIdle /\ FilterIdle /\ MarkIdle /\ CacheIdle

SpecPage == InitPage /\ [][PageNext]_vars

InitFilter ==
    FilterInit /\ CodecIdle /\ DurIdle /\ PayIdle /\ FlagIdle /\ StrictIdle /\ SearchIdle /\ ApiIdle /\ PageIdle /\ MarkIdle /\ CacheIdle

SpecFilter == InitFilter /\ [][FilterNext]_vars

InitMarkers ==
    MarkInit /\ CodecIdle /\ DurIdle /\ PayIdle /\ FlagIdle /\ StrictIdle /\ SearchIdle /\ ApiIdle /\ PageIdle /\ FilterIdle /\ CacheIdle

SpecMarkers == InitMarkers /\ [][MarkNext]_vars

InitCache ==
    CacheInit /\ ApiInit /\ CodecIdle /\ DurIdle /\ PayIdle /\ FlagIdle /\ StrictIdle /\ SearchIdle /\ PageIdle /\ FilterIdle /\ MarkIdle

SpecCache == InitCache /\ [][CacheNext]_vars

----------------------------------------------------------------------------
(* C1 *)

\* C1 as stated: for any selection record x made of hash, filename, ext,
\* sig, title and the optional sample flag, decode_id(encode_id(x)) = x.
C1_RoundTripAnyRecord ==
    cpc = "done" => cout = [ok |-> TRUE, v |-> Dict(cx)]

\* C1 as amended: for any selection record x made of hash, filename, ext,
\* sig, title (text or None) whose sample flag is absent or True,
\* decode_id(encode_id(x)) = x.  A sample flag that is present and False is
\* not written by encode_id, so it does not come back.
C1_RoundTrip ==
    (cpc = "done" /\ (K_sample \in DOMAIN cx => cx[K_sample] = Bool(TRUE)))
        => cout = [ok |-> TRUE, v |-> Dict(cx)]

\* a record with the sample flag, a quote and a two-byte character in its
\* title has made the round trip
C1_Witness ==
    /\ cpc = "done"
    /\ K_sample \in DOMAIN cx
    /\ cx[K_title] = Str(<<34, 233>>)
    /\ Len(ctoken) % 4 # 0
    /\ cout = [ok |-> TRUE, v |-> Dict(cx)]

----------------------------------------------------------------------------
(* C9 *)

\* the labelled components of a text: a maximal run of decimal digits,
\* optional whitespace, then the label
LabelledAt(t, label) ==
    {<<i, j>> \in (1..Len(t)) \X (1..Len(t)) :
        /\ i <= j
        /\ \A k \in i..j : IsDecimal(t[k])
        /\ (i > 1 => ~IsDecimal(t[i - 1]))
        /\ ~IsDecimal(At(t, j + 1))
        /\ \E m \in (j + 1)..Len(t) :
              /\ t[m] = label
              /\ \A k \in (j + 1)..(m - 1) : IsSpace(t[k])}

RECURSIVE SumLabelled(_, _)
SumLabelled(t, runs) ==
    IF runs = {} THEN 0
    ELSE LET r == CHOOSE x \in runs : TRUE
         IN  DigitsValue(SubSeq(t, r[1], r[2])) + SumLabelled(t, runs \ {r})

\* the value the ordered rules of the claim give (text taken stripped and
\* lower-cased)
DurationRule(raw) ==
    IF raw.t = "none" THEN None
    ELSE IF raw.t = "int" THEN (IF raw.n > 0 THEN Num(raw.n) ELSE None)
    ELSE LET t   == Lower(Strip(raw.s))
             hs  == LabelledAt(t, 104)
             ms  == LabelledAt(t, 109)
             ss  == LabelledAt(t, 115)
             ps  == SplitOn(t, 58)
         IN  IF t # <<>> /\ \A i \in 1..Len(t) : IsDecimal(t[i])
             THEN Num(DigitsValue(t))
             ELSE IF hs \cup ms \cup ss # {}
             THEN Num(3600 * SumLabelled(t, hs) + 60 * SumLabelled(t, ms)
                      + SumLabelled(t, ss))
             ELSE IF Len(ps) \in {2, 3} /\ \A i \in 1..Len(ps) : PyInt(ps[i]).ok
             THEN IF Len(ps) = 3
                  THEN Num(3600 * PyInt(ps[1]).n + 60 * PyInt(ps[2]).n + PyInt(ps[3]).n)
                  ELSE Num(60 * PyInt(ps[1]).n + PyInt(ps[2]).n)
             ELSE None

\* C9 as stated: for every input, _parse_duration_seconds returns the value
\* given by the ordered rules (number, digit-only text, labelled components,
\* clock text, otherwise unknown).
C9_DurationRules ==
    dpc = "done" => dout = DurationReturn(DurationRule(draw))

\* the same, for the inputs on which the call returns
C9_DurationRulesWhenReturning ==
    (dpc = "done" /\ dout.ok) => dout = DurationReturn(DurationRule(draw))

----------------------------------------------------------------------------
(* C10 *)

\* the key the claim gives the item at 0-based position i
C10_Key(i, it) ==
    IF it.sig = None \/ it.sig = Str(<<>>) THEN IntText(i)
    ELSE IntText(i) \o <<38, 115, 105, 103, 61>> \o it.sig.s

\* v is "<hash>|<f>:<e>" where f and e carry no padding and, padded again,
\* are the base64 of filename and ext
C10_ValueOk(v, it) ==
    LET bar   == IndexFrom(v, 124, 1)
        colon == IndexFrom(v, 58, bar + 1)
        f     == SubSeq(v, bar + 1, colon - 1)
        e     == SubSeq(v, colon + 1, Len(v))
        repad(x) == x \o PadText((4 - (Len(x) % 4)) % 4)
    IN  /\ bar <= Len(v) /\ colon <= Len(v)
        /\ SubSeq(v, 1, bar - 1) = it.hash.s
        /\ \A k \in 1..Len(f) : f[k] # 61
        /\ \A k \in 1..Len(e) : e[k] # 61
        /\ B64Decode(repad(f)) = [ok |-> TRUE, b |-> Utf8Encode(it.filename.s)]
        /\ B64Decode(repad(e)) = [ok |-> TRUE, b |-> Utf8Encode(it.ext.s)]

C10_Named == pname # None /\ pname # Str(<<>>)

\* C10: build_nzb_payload returns a mapping with exactly the create-manifest
\* flag field, one field per item (none overwriting another) and a name field
\* iff a (non-empty) name is supplied; the item at 0-based position i has key
\* str(i), or "<i>&sig=<signature>" when it has a (non-empty) signature, and
\* value "<hash>|<base64(filename) unpadded>:<base64(ext) unpadded>".
C10_Payload ==
    ppc = "done" =>
        LET n    == Len(pitems)
            keys == {C10_Key(i - 1, pitems[i]) : i \in 1..n}
        IN  /\ pout.ok
            /\ DOMAIN pout.data =
                   {K_autoNZB} \cup keys \cup (IF C10_Named THEN {K_nameZipQ0} ELSE {})
            /\ Cardinality(DOMAIN pout.data) = n + 1 + (IF C10_Named THEN 1 ELSE 0)
            /\ pout.data[K_autoNZB] = <<49>>
            /\ (C10_Named => pout.data[K_nameZipQ0] = pname.s)
            /\ \A i \in 1..n :
                  C10_ValueOk(pout.data[C10_Key(i - 1, pitems[i])], pitems[i])

\* a payload was built for two items, one signed and one not, with a name
C10_Witness ==
    /\ ppc = "done"
    /\ Len(pitems) = 2
    /\ pitems[1].sig = Str(<<115>>)
    /\ pitems[2].sig = None
    /\ pitems[1].filename = Str(<<97, 233>>)
    /\ C10_Named
    /\ Cardinality(DOMAIN pout.data) = 4

----------------------------------------------------------------------------
(* C5 *)

\* the allow-list of the flag filter; extension values carry their leading
\* dot (".mkv", ".exe"), so a value without it is not on the list
C5_AllowList ==
    {<<46, 109, 107, 118>>, <<46, 109, 112, 52>>, <<46, 109, 52, 118>>, <<46, 97, 118, 105>>, <<46, 116, 115>>, <<46, 109, 111, 118>>, <<46, 119, 109, 118>>, <<46, 109, 112, 103>>,
     <<46, 109, 112, 101, 103>>, <<46, 102, 108, 118>>, <<46, 119, 101, 98, 109>>}

\* a password or virus marker is present and truthy
C5_Marker ==
    /\ fitem.t = "dict"
    /\ \E k \in {K_passwd, K_password, K_virus} : Truthy(Get(fitem.d, k))

\* the content type of the record: type, else file_type, <<>> when neither
\* is given
C5_ContentType ==
    IF fitem.t # "dict" THEN <<>>
    ELSE IF Truthy(Get(fitem.d, K_type)) THEN fitem.d[K_type].s
    ELSE IF Truthy(Get(fitem.d, K_file_type)) THEN fitem.d[K_file_type].s
    ELSE <<>>

\* C5: once _is_flagged_item has returned, the record is excluded exactly
\* when a password or virus marker is truthy, or a content type is given and
\* is not VIDEO, or the extension in lower case is not on the allow-list, or
\* the duration is known and below 60 seconds.
C5_FlagRule ==
    fpc = "done" =>
        (fout <=> \/ C5_Marker
                  \/ C5_ContentType # <<>> /\ Upper(C5_ContentType) # <<86, 73, 68, 69, 79>>
                  \/ Lower(fext.s) \notin C5_AllowList
                  \/ fdur # None /\ fdur.n < 60)

\* a record with an allow-listed extension and no marker, 59 seconds long,
\* has been rejected
C5_Witness ==
    /\ fpc = "done"
    /\ fext = Str(<<46, 109, 107, 118>>)
    /\ fdur = Num(59)
    /\ ~C5_Marker
    /\ C5_ContentType = <<>>
    /\ fout

----------------------------------------------------------------------------
(* C6 *)

\* whether the query metadata and a result item agree on field k when both
\* have it
C6_Agree(item, k) ==
    LET q == Get(qargs.query_meta, k)
    IN  (q # None /\ item[k] # None) =>
            IF k = K_quality THEN Lower(q.s) = Lower(item[k].s) ELSE q = item[k]

\* C6: every retained candidate agrees with the query metadata on each of
\* year, season, episode and quality that both sides have, for any values,
\* 0 included.
C6_MetaMatch ==
    qpc = "done" =>
        \A i \in 1..Len(qout.out) :
            \A k \in {K_year, K_season, K_episode, K_quality} : C6_Agree(qout.out[i], k)

\* the same for the fields whose two values are not 0
C6_MetaMatchNonZero ==
    qpc = "done" =>
        \A i \in 1..Len(qout.out) :
            \A k \in {K_year, K_season, K_episode, K_quality} :
                (Truthy(Get(qargs.query_meta, k)) /\ Truthy(qout.out[i][k]))
                    => C6_Agree(qout.out[i], k)

----------------------------------------------------------------------------
(* C7 *)

\* the phrase tokens P occur in the title tokens T as a contiguous run in
\* the same order
C7_Run(T, P) ==
    \E k \in 0..(Len(T) - Len(P)) : \A j \in 1..Len(P) : T[k + j] = P[j]

\* C7: with a non-empty sanitized phrase, _matches_strict passes the title
\* exactly when the sanitized title equals the phrase or the phrase tokens
\* are a contiguous same-order run of the title tokens.
C7_StrictMatch ==
    (spc = "done" /\ _sanitize_phrase(squery) # <<>>) =>
        (sout <=> \/ _sanitize_phrase(stitle) = _sanitize_phrase(squery)
                  \/ C7_Run(SplitWs(_sanitize_phrase(stitle)),
                            SplitWs(_sanitize_phrase(squery))))

\* a title has passed whose tokens hold the two phrase tokens as a run that
\* does not start the title
C7_Witness ==
    /\ spc = "done"
    /\ sout
    /\ Len(SplitWs(_sanitize_phrase(squery))) = 2
    /\ Len(SplitWs(_sanitize_phrase(stitle))) = 3
    /\ SubSeq(SplitWs(_sanitize_phrase(stitle)), 1, 2) # SplitWs(_sanitize_phrase(squery))

----------------------------------------------------------------------------
(* C8 *)

\* "the", "a", "an", "and", "of", "in", "for", "on"
C8_StopWords ==
    {<<116, 104, 101>>, <<97>>, <<97, 110>>, <<97, 110, 100>>, <<111, 102>>, <<105, 110>>, <<102, 111, 114>>, <<111, 110>>}

\* the tokens of a text: its maximal runs of word characters in lower case,
\* longer than one character, the stop words left out
C8_Tokens(text) ==
    LET s == Lower(text)
        IsRun(i, j) == /\ i <= j
                       /\ \A k \in i..j : IsWord(s[k])
                       /\ i = 1 \/ ~IsWord(s[i - 1])
                       /\ j = Len(s) \/ ~IsWord(s[j + 1])
        runs == {SubSeq(s, p[1], p[2]) :
                    p \in {x \in (1..Len(s)) \X (1..Len(s)) : IsRun(x[1], x[2])}}
    IN  {w \in runs : Len(w) > 1 /\ w \notin C8_StopWords}

\* what filter_and_map returns for the same request without query tokens
C8_WithoutTokens ==
    filter_and_map(qdata, qargs.min_bytes, <<>>, qargs.query_meta, qargs.strict_phrase,
                   qargs.strict_requested)

\* C8: when the raw query has tokens, the candidates retained are those the
\* other steps retain whose title tokens include every query token; a title
\* without tokens is rejected.
C8_TokenSubset ==
    (qpc = "done" /\ C8_Tokens(qargs.raw_query) # {}) =>
        qout.out = SelectSeq(C8_WithoutTokens.out,
                             LAMBDA item : C8_Tokens(qargs.raw_query)
                                               \subseteq C8_Tokens(item[K_title].s))

\* of two candidates the other steps retain, the token step has kept one
\* and dropped one
C8_Witness ==
    /\ qpc = "done"
    /\ C8_Tokens(qargs.raw_query) # {}
    /\ Len(C8_WithoutTokens.out) = 2
    /\ Len(qout.out) = 1

----------------------------------------------------------------------------
(* C2 *)

\* an authorized retrieval request with an id has been served
C2_Retrieval ==
    /\ response.status # 0
    /\ require_apikey(request)
    /\ ArgT(request) \in {<<103, 101, 116>>, <<103, 101, 116, 110, 122, 98>>}
    /\ Truthy(Get(request.args, K_id))

\* its id is not decodable, not deserializable to a record, or lacks one of
\* the selection fields hash, filename, ext
C2_Invalid ==
    \/ ~decode_id(request.args[K_id].s).ok
    \/ decode_id(request.args[K_id].s).v.t # "dict"
    \/ ~({K_hash, K_filename, K_ext} \subseteq DOMAIN decode_id(request.args[K_id].s).v.d)

\* C2: a retrieval request with an invalid or tampered id is answered 400,
\* and no upstream call is made for it.
C2_BadRequest ==
    (C2_Retrieval /\ C2_Invalid) => (response.status = 400 /\ calls = <<>>)

\* what the handler does with such a request: no upstream call, and the
\* response is the 500 of an unhandled exception, or the placeholder
\* manifest when the decoded record has a truthy sample field
C2_Unhandled ==
    (C2_Retrieval /\ C2_Invalid) =>
        /\ calls = <<>>
        /\ \/ response = InternalServerError
           \/ response = Attachment(SampleNzb, <<115, 97, 109, 112, 108, 101>>)

----------------------------------------------------------------------------
(* C3 *)

\* the upstream calls of the operation op made for the last request
C3_Calls(op) == {i \in 1..Len(calls) : calls[i].op = op}

\* C3: when the upstream answers the search GET or the manifest POST with a
\* status other than 200, the response is an upstream error that carries
\* that status, and the operation was issued once.
C3_UpstreamFailure ==
    \A op \in {"search", "post"} :
        \A i \in C3_Calls(op) :
            calls[i].status # 200 =>
                /\ response.status = 502
                /\ Contains(response.body, IntText(calls[i].status))
                /\ Cardinality(C3_Calls(op)) = 1

\* the same for the manifest POST alone
C3_PostFailure ==
    \A i \in C3_Calls("post") :
        calls[i].status # 200 =>
            /\ response.status = 502
            /\ response.body = <<85, 112, 115, 116, 114, 101, 97, 109, 32, 101, 114, 114, 111, 114, 32>> \o IntText(calls[i].status)
            /\ Cardinality(C3_Calls("post")) = 1

\* a search whose last GET is answered with an error status ends in the 500
\* of an unhandled exception
C3_SearchFailure ==
    \A i \in C3_Calls("search") :
        (i = Len(calls) /\ calls[i].status >= 400) => response = InternalServerError

----------------------------------------------------------------------------
(* C4 *)

\* a retrieval that is not a sample one has succeeded: the manifest POST was
\* answered 200 and so was the request
C4_Retrieved ==
    /\ response.status = 200
    /\ calls # <<>>
    /\ calls[Len(calls)].op = "post"

\* C4: the bytes of a successful retrieval are the upstream bytes with every
\* date="" replaced by date="0", and hold no date="".
C4_Normalized ==
    C4_Retrieved =>
        /\ response.body = Replace(calls[Len(calls)].content, <<100, 97, 116, 101, 61, 34, 34>>, <<100, 97, 116, 101, 61, 34, 48, 34>>)
        /\ ~Contains(response.body, <<100, 97, 116, 101, 61, 34, 34>>)

\* the bytes of a successful retrieval are the upstream bytes as they came
C4_Unchanged ==
    C4_Retrieved => response.body = calls[Len(calls)].content

----------------------------------------------------------------------------
(* C11 *)

\* a step that serves an authorized retrieval request with an id
C11_Retrieval ==
    /\ response.status = 0
    /\ response'.status # 0
    /\ require_apikey(request')
    /\ ArgT(request') \in {<<103, 101, 116>>, <<103, 101, 116, 110, 122, 98>>}
    /\ Truthy(Get(request'.args, K_id))

\* the sample path: the placeholder manifest, no upstream call, and the
\* client cache as it was
C11_SamplePath ==
    /\ response' = Attachment(SampleNzb, <<115, 97, 109, 112, 108, 101>>)
    /\ calls' = <<>>
    /\ _CLIENT' = _CLIENT
    /\ _CLIENT_LAST_LOGIN' = _CLIENT_LAST_LOGIN

\* the manifest POSTs among the upstream calls of the step
C11_Posts == {i \in 1..Len(calls') : calls'[i].op = "post"}

\* the payload p holds one item, the token of the record d under the key of
\* position 0, beside the create-manifest flag and the name
C11_OneItem(p, d) ==
    /\ K_autoNZB \in DOMAIN p
    /\ Cardinality(DOMAIN p \ {K_autoNZB, K_nameZipQ0}) = 1
    /\ \A k \in DOMAIN p \ {K_autoNZB, K_nameZipQ0} :
        /\ k[1] = 48
        /\ p[k] = value_token(to_search_item(d).v).s

\* one POST, its payload holding the one item of the record d
C11_Forwarded(d) ==
    /\ Cardinality(C11_Posts) = 1
    /\ \A i \in C11_Posts : C11_OneItem(calls'[i].payload, d)

\* the record d holds the selection fields, file name and extension as texts
C11_Selection(d) ==
    /\ {K_hash, K_filename, K_ext} \subseteq DOMAIN d
    /\ d[K_filename].t = "str"
    /\ d[K_ext].t = "str"

\* client() raised: the last login() of the step was refused
C11_LoginRefused ==
    \E i \in 1..Len(calls') :
        /\ calls'[i].op = "login"
        /\ LoginRaises(calls'[i].status)
        /\ \A j \in (i + 1)..Len(calls') : calls'[j].op # "login"

\* the two paths of a retrieval whose id decoded to v, for every token
C11_PathsAlways(v) ==
    v.t = "dict" =>
        IF Truthy(Get(v.d, K_sample)) THEN C11_SamplePath ELSE C11_Forwarded(v.d)

\* the two paths of a retrieval whose id decoded to v
C11_Paths(v) ==
    v.t = "dict" =>
        IF Truthy(Get(v.d, K_sample)) THEN C11_SamplePath
        ELSE (C11_Selection(v.d) /\ ~C11_LoginRefused) => C11_Forwarded(v.d)

\* the decoded id of the request served by the step
C11_Decoded == decode_id(request'.args[K_id].s)

----------------------------------------------------------------------------
(* C12 *)

\* what filter_and_map makes of the record it alone, with the arguments a
C12_Alone(it, a) == FilterCall([gdata EXCEPT ![K_data] = List(<<it>>)], a).out

RECURSIVE C12_Passing(_, _, _)

\* the records from position i on that pass every filter, each as the item
\* made of it, in the order of the upstream
C12_Passing(recs, i, a) ==
    IF i > Len(recs) THEN <<>>
    ELSE C12_Alone(recs[i], a) \o C12_Passing(recs, i + 1, a)

\* the items at the positions offset .. offset + limit - 1, counted from 0
C12_Positions(items, offset, limit) ==
    [k \in 1..Max(0, Min(limit, Len(items) - offset)) |-> items[offset + k]]

\* the feed of the page of the passing items
C12_Feed(page) == [k \in 1..Len(page) |-> FeedItem(page[k])]

\* C12: for a non-negative offset and limit the results page is the
\* sequence of the upstream records that pass every filter, in upstream
\* order, cut to the positions offset .. offset + limit - 1, and so has at
\* most limit items.
C12_Page ==
    (gpc = "done" /\ gargs.ok /\ gargs.limit >= 0 /\ gargs.offset >= 0) =>
        /\ gout.status = 200
        /\ gout.feed = C12_Feed(C12_Positions(C12_Passing(gdata[K_data].a, 1, gargs),
                                              gargs.offset, gargs.limit))
        /\ Len(gout.feed) <= gargs.limit

\* behind a record that passes no filter, the second of the two passing
\* items is the page of offset 1 and limit 1
C12_Witness ==
    /\ gpc = "done"
    /\ gargs.ok
    /\ gargs.offset = 1
    /\ gargs.limit = 1
    /\ Len(gdata[K_data].a) = 3
    /\ gdata[K_data].a[1] = ArrayRecord(<<83, 104, 111, 119, 32, 99>>)
    /\ gdata[K_data].a[2] = SizedRecord(<<83, 104, 111, 119, 32, 98>>, 150 * MiB)
    /\ gdata[K_data].a[3] = SizedRecord(<<83, 104, 111, 119, 32, 97>>, 200 * MiB)
    /\ Len(gout.feed) = 1
    /\ gout.feed[1].title = <<83, 104, 111, 119, 32, 97>>

----------------------------------------------------------------------------
(* C18 *)

\* the upstream response without its array-shaped records
C18_WithoutArrays ==
    [gdata EXCEPT ![K_data] = List(SelectSeq(gdata[K_data].a, LAMBDA r : r.t # "list"))]

\* the array-shaped records of the upstream response
C18_Arrays == {gdata[K_data].a[i] : i \in {j \in 1..Len(gdata[K_data].a) : gdata[K_data].a[j].t = "list"}}

\* C18: for every value of minsize the size floor of a search is at least
\* 100 MiB; the size of an array-shaped record is taken as 0, so it does not
\* pass, and the results page is the page of the response without its
\* array-shaped records.
C18_NoArrayRecord ==
    (gpc = "done" /\ gargs.ok) =>
        /\ gargs.min_bytes >= 100 * MiB
        /\ \A r \in C18_Arrays :
            /\ RecordFields(r).size = Num(0)
            /\ C12_Alone(r, gargs) = <<>>
        /\ gout.status = 200
        /\ gout.feed = SearchPage(gargs, FilterCall(C18_WithoutArrays, gargs).out).feed

\* a search with minsize=-5 has been served a response with an array-shaped
\* record before a map-shaped one, and the page holds the latter only
C18_Witness ==
    /\ gpc = "done"
    /\ greq = (K_t :> Str(<<115, 101, 97, 114, 99, 104>>)) @@ (K_q :> Str(<<115, 104, 111, 119>>)) @@ (K_minsize :> Str(<<45, 53>>))
    /\ gdata[K_data].a = <<ArrayRecord(<<83, 104, 111, 119, 32, 99>>), SizedRecord(<<83, 104, 111, 119, 32, 98>>, 150 * MiB)>>
    /\ Len(gout.feed) = 1
    /\ gout.feed[1].title = <<83, 104, 111, 119, 32, 98>>

----------------------------------------------------------------------------
(* C13 *)

\* the invariant of one emitted result: hash and ext not empty, the size an
\* integer (a bool is one in Python) that is not negative
C13_Item(it) ==
    /\ Truthy(it[K_hash])
    /\ Truthy(it[K_ext])
    /\ it[K_size].t \in {"int", "bool"}
    /\ IntOf(it[K_size]) >= 0

\* the invariant for any min_bytes argument
C13_ResultsAnyMinBytes ==
    mpc = "done" => \A i \in 1..Len(mout.out) : C13_Item(mout.out[i])

\* C13: for any upstream result set and any min_bytes argument that is not
\* negative, every result emitted by filter_and_map has a non-empty hash, a
\* non-empty ext and an integer size with size >= 0.
C13_Results ==
    (mpc = "done" /\ mmin >= 0) => \A i \in 1..Len(mout.out) : C13_Item(mout.out[i])

\* a record of size 0 has been emitted under min_bytes = 0: an array-shaped
\* one, whose hash and ext come from the positions 0 and 11
C13_Witness ==
    /\ mpc = "done"
    /\ mmin = 0
    /\ mdata[K_data].a = <<ArrayRecord(<<83, 104, 111, 119>>)>>
    /\ Len(mout.out) = 1
    /\ mout.out[1][K_size] = Num(0)
    /\ mout.out[1][K_hash] = Str(<<104>>)
    /\ mout.out[1][K_ext] = Str(<<46, 109, 107, 118>>)

----------------------------------------------------------------------------
(* C14 *)

\* a min_bytes argument below every size
C14_NoThreshold == -(1024 * MiB)

\* the record of the call, and whether it passes every other filter: it is
\* retained when the threshold is out of the way
C14_Record == mdata[K_data].a[1]

C14_OthersPass == filter_and_map(mdata, C14_NoThreshold, <<>>, <<>>, None, FALSE).out # <<>>

\* the call is one of a map-shaped record with an integer size
C14_Sized ==
    /\ mpc = "done"
    /\ C14_Record.t = "dict"
    /\ K_size \in DOMAIN C14_Record.d
    /\ C14_Record.d[K_size].t = "int"

\* C14: with all other filters passing, a record whose size equals
\* min_bytes is retained and a record whose size is min_bytes - 1 is
\* rejected.
C14_Boundary ==
    (C14_Sized /\ C14_OthersPass) =>
        /\ C14_Record.d[K_size].n = mmin => Len(mout.out) = 1
        /\ C14_Record.d[K_size].n = mmin - 1 => mout.out = <<>>

\* a record of exactly 100 MiB has been retained under min_bytes = 100 MiB
C14_Witness ==
    /\ C14_Sized
    /\ mmin = 100 * MiB
    /\ C14_Record.d[K_size] = Num(100 * MiB)
    /\ Len(mout.out) = 1
    /\ mout.out[1][K_size] = Num(100 * MiB)

----------------------------------------------------------------------------
(* C15 *)

\* the field resolved to v from the record d, sem its semantic keys and num
\* its numeric-string key: the value under a semantic key that is present
\* and not empty when there is one, the value under num when only that is
C15_Resolves(v, d, sem, num) ==
    IF \E k \in sem : Truthy(Get(d, k))
    THEN \E k \in sem : Truthy(Get(d, k)) /\ v = d[k]
    ELSE Truthy(Get(d, num)) => v = d[num]

\* the canonical fields but the duration
C15_Fields(f, d) ==
    /\ C15_Resolves(f.hash_id, d, {K_hash}, K_0)
    /\ C15_Resolves(f.subject, d, {K_subject}, K_6)
    /\ C15_Resolves(f.filename_no_ext, d, {K_filename}, K_10)
    /\ C15_Resolves(f.ext, d, {K_ext}, K_11)
    /\ C15_Resolves(f.poster, d, {K_poster}, K_7)
    /\ C15_Resolves(f.posted_raw, d, {K_dtime, K_date}, K_12)

\* rejected only when no hash or no extension is under any of their keys
C15_Rejected(d) ==
    mout.out = <<>> =>
        \/ \A k \in {K_hash, K_0, K_id} : ~Truthy(Get(d, k))
        \/ \A k \in {K_ext, K_11} : ~Truthy(Get(d, k))

\* the call is one of a map-shaped record that passes the size threshold
C15_MapShaped ==
    /\ mpc = "done"
    /\ mdata[K_data].a[1].t = "dict"
    /\ mdata[K_data].a[1] \in KeyRecords

\* C15: for a map-shaped record each canonical field (hash, subject,
\* filename, extension, poster, posted time, duration) resolves to the value
\* under one of its semantic keys whenever such a key is present and not
\* empty, and to the value under its numeric-string key only when no
\* semantic key is; the record is rejected only when no hash or no
\* extension can be resolved.
C15_Normalization ==
    C15_MapShaped =>
        /\ C15_Fields(mfields[1], mdata[K_data].a[1].d)
        /\ C15_Resolves(mfields[1].duration_raw, mdata[K_data].a[1].d, {K_duration, K_len}, K_14)
        /\ C15_Rejected(mdata[K_data].a[1].d)

\* the same without the duration
C15_ExceptDuration ==
    C15_MapShaped =>
        /\ C15_Fields(mfields[1], mdata[K_data].a[1].d)
        /\ C15_Rejected(mdata[K_data].a[1].d)

\* the duration resolves to the value under "14" whenever that is present
\* and not empty, whatever is under duration and len
C15_DurationNumericFirst ==
    (C15_MapShaped /\ Truthy(Get(mdata[K_data].a[1].d, K_14))) =>
        mfields[1].duration_raw = mdata[K_data].a[1].d[K_14]

----------------------------------------------------------------------------
(* C16 *)

\* the start of the first match of the pattern at or after position i, 0
\* when there is none
C16_NextMatch(s, i) ==
    IF \E k \in i..Len(s) : MarkerAt(s, k).len > 0
    THEN CHOOSE k \in i..Len(s) :
            /\ MarkerAt(s, k).len > 0
            /\ \A j \in i..(k - 1) : MarkerAt(s, j).len = 0
    ELSE 0

RECURSIVE C16_MatchesFrom(_, _)

\* the matches of the pattern in s from position k on, left to right, k
\* the start of the first of them (0: none)
C16_MatchesFrom(s, k) ==
    IF k = 0 THEN <<>>
    ELSE <<MarkerAt(s, k)>> \o C16_MatchesFrom(s, C16_NextMatch(s, k + MarkerAt(s, k).len))

\* the matches among ms that set season, episode, year
C16_WithSeason(ms) == SelectSeq(ms, LAMBDA m : m.season # None)

C16_WithEpisode(ms) == SelectSeq(ms, LAMBDA m : m.episode # None)

C16_WithYear(ms) == SelectSeq(ms, LAMBDA m : m.year # None)

\* the field k of info is the value v of the first of the matches hits,
\* and is not set when there is none
C16_FromFirst(info, k, hits, v) ==
    IF hits = <<>> THEN k \notin DOMAIN info
    ELSE k \in DOMAIN info /\ info[k] = v

\* the info dict against the matches ms of the title
C16_Info(info, ms) ==
    /\ C16_FromFirst(info, K_season, C16_WithSeason(ms),
                     IF C16_WithSeason(ms) = <<>> THEN None ELSE C16_WithSeason(ms)[1].season)
    /\ C16_FromFirst(info, K_episode, C16_WithEpisode(ms),
                     IF C16_WithEpisode(ms) = <<>> THEN None ELSE C16_WithEpisode(ms)[1].episode)
    /\ C16_FromFirst(info, K_year, C16_WithYear(ms),
                     IF C16_WithYear(ms) = <<>> THEN None ELSE C16_WithYear(ms)[1].year)

\* C16: season and episode are those of the first match of S<season>E<episode>
\* or <season>x<episode> in the title, the year that of the first match of
\* a 19xx or 20xx; no later match changes a field that is set, and the
\* year is set whether or not a season and an episode were found.
C16_FirstMatch ==
    rpc = "done" => C16_Info(rout, C16_MatchesFrom(rtitle, C16_NextMatch(rtitle, 1)))

\* a title with a year before two season/episode matches: the year, and the
\* season and episode of the first of the two
C16_Witness ==
    /\ rpc = "done"
    /\ rtitle = <<50, 48, 49, 57, 46, 83, 48, 49, 69, 48, 50, 46, 50, 120, 48, 53>>
    /\ rhint = None
    /\ rout = (K_season :> Num(1)) @@ (K_episode :> Num(2)) @@ (K_year :> Num(2019))


\* the positions of s at which a season/episode, a year can be read
C16_SeasonAt(s) == {k \in 1..Len(s) : MarkerAt(s, k).season # None}

C16_YearAt(s) == {k \in 1..Len(s) : MarkerAt(s, k).year # None}

\* the least member of a set of positions
C16_Least(S) == CHOOSE k \in S : \A j \in S : k <= j

\* the parts of the title are separated by dots
C16_Separated ==
    \E ps \in SeqsUpTo(MarkerParts, MaxMarkerParts) : rtitle = Join(ps, <<46>>)

\* in a title whose parts are separated, season and episode are read at
\* the leftmost position of the title where they can be read, and so is the
\* year, whatever precedes
C16_LeftmostWhenSeparated ==
    (rpc = "done" /\ C16_Separated) =>
        /\ IF C16_SeasonAt(rtitle) = {} THEN K_season \notin DOMAIN rout
           ELSE /\ rout[K_season] = MarkerAt(rtitle, C16_Least(C16_SeasonAt(rtitle))).season
                /\ rout[K_episode] = MarkerAt(rtitle, C16_Least(C16_SeasonAt(rtitle))).episode
        /\ IF C16_YearAt(rtitle) = {} THEN K_year \notin DOMAIN rout
           ELSE rout[K_year] = MarkerAt(rtitle, C16_Least(C16_YearAt(rtitle))).year

----------------------------------------------------------------------------
(* C17 *)

\* the threads inside a login() call, and those at the construction of a
\* client
C17_InLogin == {t \in Threads : tpc[t] \in {"login", "relogin", "login_again"}}

C17_Constructing == {t \in Threads : tpc[t] = "create"}

\* the threads inside a login() call that is not the first of the cached
\* client
C17_LoginAgain == {t \in Threads : tpc[t] \in {"relogin", "login_again"}}

\* C17: in every interleaving a client is constructed and login() runs only
\* in the thread that holds the lock, so no two login() calls overlap; as
\* long as no login has failed one EasynewsClient instance at most is
\* created, the cached one, and a login() other than its first is made only
\* by a call that observed more than 600 seconds since the last recorded
\* login.
C17_ClientCache ==
    /\ \A t \in C17_InLogin \cup C17_Constructing : lock = t
    /\ Cardinality(C17_InLogin) <= 1
    /\ failures = 0 =>
        /\ created <= 1
        /\ _CLIENT # None => (created = 1 /\ _CLIENT = Num(1))
        /\ \A t \in Threads : tpc[t] = "login" => _CLIENT_LAST_LOGIN = 0
    /\ \A t \in C17_LoginAgain : tnow[t] - _CLIENT_LAST_LOGIN > 600

\* no login has failed, the one client logs in again for a call that read
\* the clock 900 seconds after the recorded login, and the other thread
\* waits for the lock
C17_Witness ==
    /\ failures = 0
    /\ created = 1
    /\ _CLIENT = Num(1)
    /\ tpc[1] = "relogin"
    /\ tpc[2] = "acquire"
    /\ lock = 1
    /\ tnow[1] - _CLIENT_LAST_LOGIN = 900

\* a call that read the clock exactly 600 seconds after the recorded login
\* returns the cached client without a login
C17_AtTtl ==
    /\ failures = 0
    /\ tpc[1] = "return"
    /\ _CLIENT_LAST_LOGIN = StartTime
    /\ tnow[1] - _CLIENT_LAST_LOGIN = 600

====
